---- MODULE Spec2Model ----
(***************************************************************************)
(* A model of the tree-walking Lox interpreter of re1n-e/Interpreter.      *)
(*                                                                         *)
(* The evaluator (src/src/evaluate.rs), the environment chain              *)
(* (src/src/environment.rs) and the callables (src/src/function.rs) are    *)
(* modelled as operators over a record of the interpreter's state; the     *)
(* driver loop of `evaluate` is the state machine Spec: one step executes  *)
(* one top-level statement of the program.  The statement parser of        *)
(* src/src/parse.rs is modelled over token sequences; ParserSpec parses    *)
(* one statement per step.                                                 *)
(*                                                                         *)
(* Numbers are IEEE doubles in the program; the model keeps them to the    *)
(* integers, on which + - * and the comparisons of doubles are exact.      *)
(* Environments are reference-counted cells in the program; the model      *)
(* keeps them in a heap `envs` (a sequence) and a reference is an index.   *)
(***************************************************************************)
EXTENDS Integers, Sequences, FiniteSets

VARIABLES
    prog,         \* the parsed program: the Vec<Stmt> that Parser::parse returned
    pc,           \* index of the next top-level statement of the driver loop
    flag,         \* evaluate(filename, flag): TRUE = `evaluate` mode, FALSE = `run`
    now,          \* the seconds that `clock` last returned, 0 before its first call
    envs,         \* the heap of Environment cells
    globals,      \* Evaluate.globals
    environment,  \* Evaluate.environment, the current environment
    out,          \* the lines written to stdout
    err,          \* the lines written to stderr
    status,       \* "start", "running", "exit0", "exit70", "panic" or "diverged"
    ptokens,      \* Parser.tokens
    pcurrent,     \* Parser.current
    phad_error,   \* Parser.had_error
    perror,       \* Parser.error
    pstatements,  \* the statements parsed so far
    pstatus,      \* "start", "parsing", "done", "exit", "panic", "returned" or "unmodelled"
    source,       \* the characters of the file that `tokenize` reads
    lchars,       \* char_iter of Lexer::lex: the characters not yet consumed
    ltokens,      \* the tokens of Lexer::lex
    lhad_error,   \* Lexer.had_error
    lline,        \* Lexer.line
    current_line, \* current_line of Lexer::lex
    lstatus,      \* "start", "lexing" or "done"
    eop           \* the last operation on an Environment, with the heap before it

vars == <<prog, pc, flag, now, envs, globals, environment, out, err, status,
          ptokens, pcurrent, phad_error, perror, pstatements, pstatus,
          source, lchars, ltokens, lhad_error, lline, current_line, lstatus,
          eop>>

evalVars == <<prog, pc, flag, now, envs, globals, environment, out, err, status>>
parseVars == <<ptokens, pcurrent, phad_error, perror, pstatements, pstatus>>
lexVars == <<source, lchars, ltokens, lhad_error, lline, current_line, lstatus>>

(***************************************************************************)
(* Bounds of the model.                                                    *)
(***************************************************************************)
\* the longest program composed freely from StmtPool
MaxStmts == 2
\* calls and loop iterations one top-level statement may make before the
\* model gives up on it ("diverged")
MaxFuel == 12
\* the largest reading of the wall clock, in seconds since 1970
MaxClock == 2
\* the most readings of the wall clock one top-level statement may make
\* before the model gives up on it ("diverged")
MaxReads == 2
\* the largest argument of the recursive test functions
MaxArg == 3
\* the most parameters of the functions of the arity programs
MaxParams == 2
\* the most tokens between the first `return` and the EOF of a token stream
MaxTokens == 4
MaxNesting == 0
\* the longest source composed freely from the characters of LexAlphabet
MaxChars == 3

(***************************************************************************)
(* Option<T>.                                                              *)
(***************************************************************************)
None == [some |-> FALSE]
Some(x) == [some |-> TRUE, v |-> x]

(***************************************************************************)
(* Tokens as the parser and the evaluator read them.                       *)
(***************************************************************************)
Token(token_type, lexeme, line, literal) ==
    [token_type |-> token_type, lexeme |-> lexeme, line |-> line,
     literal |-> literal]

OpLexeme(token_type) ==
    CASE token_type = "MINUS" -> "-"
      [] token_type = "PLUS" -> "+"
      [] token_type = "STAR" -> "*"
      [] token_type = "SLASH" -> "/"
      [] token_type = "BANG" -> "!"
      [] token_type = "BANG_EQUAL" -> "!="
      [] token_type = "EQUAL_EQUAL" -> "=="
      [] token_type = "GREATER" -> ">"
      [] token_type = "GREATER_EQUAL" -> ">="
      [] token_type = "LESS" -> "<"
      [] token_type = "LESS_EQUAL" -> "<="
      [] token_type = "AND" -> "and"
      [] token_type = "OR" -> "or"
      [] token_type = "RIGHT_PAREN" -> ")"
      [] token_type = "RETURN" -> "return"
      [] token_type = "LEFT_PAREN" -> "("
      [] token_type = "SEMICOLON" -> ";"
      [] token_type = "EQUAL" -> "="
      [] token_type = "COMMA" -> ","
      [] token_type = "LEFT_BRACE" -> "{"
      [] token_type = "RIGHT_BRACE" -> "}"
      [] token_type = "DOT" -> "."
      [] token_type = "VAR" -> "var"
      [] token_type = "FUN" -> "fun"
      [] token_type = "IF" -> "if"
      [] token_type = "ELSE" -> "else"
      [] token_type = "WHILE" -> "while"
      [] token_type = "FOR" -> "for"
      [] token_type = "PRINT" -> "print"
      [] token_type = "TRUE" -> "true"
      [] token_type = "FALSE" -> "false"
      [] token_type = "NIL" -> "nil"
      [] token_type = "CLASS" -> "class"
      [] OTHER -> ""

(***************************************************************************)
(* Literal (the payload of a token and of a literal node) and Value (a     *)
(* runtime value).                                                         *)
(***************************************************************************)
\* the most digits of an integer that the model keeps
MaxDigits == 8

RECURSIVE Pow10(_)
Pow10(k) == IF k = 0 THEN 1 ELSE 10 * Pow10(k - 1)

\* the largest integer that the model keeps; every integer up to it is an
\* f64, and the f64 operations are exact on results up to it
MaxExact == Pow10(MaxDigits) - 1

Abs(n) == IF n < 0 THEN 0 - n ELSE n

\* an f64 that is the integer n.  `negative` is the sign bit, which tells
\* -0.0 from 0.0; `exact` is FALSE for an f64 that is no integer of at most
\* MaxDigits digits (a fraction, an infinity, a NaN, a larger number), whose
\* value the model does not keep
F64(n, negative) ==
    [n |-> n, negative |-> IF n = 0 THEN negative ELSE n < 0, exact |-> TRUE]

Inexact == [n |-> 0, negative |-> FALSE, exact |-> FALSE]

LitF64(f) ==
    [lit |-> "Number", n |-> f.n, negative |-> f.negative, exact |-> f.exact]

LitNumber(n) == LitF64(F64(n, FALSE))
LitString(s) == [lit |-> "String", s |-> s]
LitBoolean(b) == [lit |-> "Boolean", b |-> b]
LitNone == [lit |-> "None"]

Ident(name, line) == Token("IDENTIFIER", name, line, LitNone)

Op(token_type, line) == Token(token_type, OpLexeme(token_type), line, LitNone)

\* Value::Number(f64) of an f64 that is the integer n, with its sign bit
Signed(n, negative) ==
    [t |-> "Number", n |-> n, negative |-> IF n = 0 THEN negative ELSE n < 0,
     exact |-> TRUE]

\* Value::Number(f64) of an f64 that is no integer of at most MaxDigits digits
InexactNumber == [t |-> "Number", n |-> 0, negative |-> FALSE, exact |-> FALSE]

Number(n) == Signed(n, FALSE)

\* Value::Number(-0.0)
NegativeZero == Signed(0, TRUE)
String(s) == [t |-> "String", s |-> s]
Boolean(b) == [t |-> "Boolean", b |-> b]
Nil == [t |-> "Nil"]
Clock == [t |-> "Function", native |-> TRUE]
LoxFunction(name, parameter, body, closure) ==
    [t |-> "Function", native |-> FALSE, name |-> name,
     parameter |-> parameter, body |-> body, closure |-> closure]

(***************************************************************************)
(* Expr and Stmt, the AST.                                                 *)
(***************************************************************************)
Literal(value) == [kind |-> "Literal", value |-> value]
Grouping(expression) == [kind |-> "Grouping", expression |-> expression]
Unary(operator, right) == [kind |-> "Unary", operator |-> operator, right |-> right]
Binary(left, operator, right) ==
    [kind |-> "Binary", left |-> left, operator |-> operator, right |-> right]
Logical(left, operator, right) ==
    [kind |-> "Logical", left |-> left, operator |-> operator, right |-> right]
Variable(name) == [kind |-> "Variable", name |-> name]
Assign(name, value) == [kind |-> "Assign", name |-> name, value |-> value]
Call(callee, paren, arguments) ==
    [kind |-> "Call", callee |-> callee, paren |-> paren, arguments |-> arguments]
Null == [kind |-> "Null"]

ExpressionStmt(expr) == [kind |-> "Expression", expr |-> expr]
PrintStmt(expr) == [kind |-> "Print", expr |-> expr]
VarStmt(name, expr) == [kind |-> "Var", name |-> name, expr |-> expr]
BlockStmt(statements) == [kind |-> "Block", statements |-> statements]
IfStmt(condition, then_branch, else_branch) ==
    [kind |-> "If", condition |-> condition, then_branch |-> then_branch,
     else_branch |-> else_branch]
WhileStmt(condition, body) == [kind |-> "While", condition |-> condition, body |-> body]
FunctionStmt(name, parameter, body) ==
    [kind |-> "Function", name |-> name, parameter |-> parameter, body |-> body]
ReturnStmt(keyword, value) == [kind |-> "Return", keyword |-> keyword, value |-> value]

(***************************************************************************)
(* Display: `{}` of a Value, as println! writes it.                        *)
(***************************************************************************)
Digit(d) ==
    CASE d = 0 -> "0" [] d = 1 -> "1" [] d = 2 -> "2" [] d = 3 -> "3"
      [] d = 4 -> "4" [] d = 5 -> "5" [] d = 6 -> "6" [] d = 7 -> "7"
      [] d = 8 -> "8" [] d = 9 -> "9"

RECURSIVE NatStr(_)
NatStr(n) == IF n < 10 THEN Digit(n) ELSE NatStr(n \div 10) \o Digit(n % 10)

IntStr(n) == IF n < 0 THEN "-" \o NatStr(0 - n) ELSE NatStr(n)

to_string(function) ==
    IF function.native THEN "<native fn>"
    ELSE "<fn " \o function.name.lexeme \o ">"

Display(value) ==
    CASE value.t = "Number" ->
             IF value.n = 0 /\ value.negative THEN "-0" ELSE IntStr(value.n)
      [] value.t = "String" -> value.s
      [] value.t = "Boolean" -> IF value.b THEN "true" ELSE "false"
      [] value.t = "Nil" -> "nil"
      [] value.t = "Function" -> to_string(value)

(***************************************************************************)
(* Environment: {enclosing: Option<ref>, values: HashMap<String, Value>}.  *)
(* The operations take the heap and the reference of the cell they are     *)
(* invoked on.                                                             *)
(***************************************************************************)
EmptyMap == [n \in {} |-> Nil]

Environment_new == [enclosing |-> None, values |-> EmptyMap]

from_enclosing(enclosing) == [enclosing |-> Some(enclosing), values |-> EmptyMap]

Insert(values, name, value) ==
    [n \in (DOMAIN values) \cup {name} |-> IF n = name THEN value ELSE values[n]]

\* Environment::define on the cell itself
define_in(env, name, value) == [env EXCEPT !.values = Insert(@, name, value)]

\* Environment::define on cell e of the heap
define(heap, e, name, value) == [heap EXCEPT ![e] = define_in(@, name, value)]

RuntimeErrorAt(message, token) ==
    [message |-> message, line |-> token.line, token |-> token]

UndefinedVariable(name) ==
    RuntimeErrorAt("Undefined variable '" \o name.lexeme \o "'.", name)

\* a variant of assign that defines a name no scope defines in the outermost
\* scope
RECURSIVE assign_or_define(_, _, _, _)
assign_or_define(heap, e, name, value) ==
    IF name.lexeme \in DOMAIN heap[e].values \/ ~heap[e].enclosing.some
    THEN [ok |-> TRUE, heap |-> define(heap, e, name.lexeme, value)]
    ELSE assign_or_define(heap, heap[e].enclosing.v, name, value)

\* a variant of assign that writes the binding into the scope it is invoked
\* on, wherever the name was found
RECURSIVE assign_here(_, _, _, _)
assign_here(heap, e, name, value) ==
    IF \E i \in 1..Len(heap) : name.lexeme \in DOMAIN heap[i].values
    THEN [ok |-> TRUE, heap |-> define(heap, e, name.lexeme, value)]
    ELSE [ok |-> FALSE, error |-> UndefinedVariable(name)]

\* Environment::assign: [ok |-> TRUE, heap] or [ok |-> FALSE, error]
RECURSIVE assign(_, _, _, _)
assign(heap, e, name, value) ==
    IF name.lexeme \in DOMAIN heap[e].values
    THEN [ok |-> TRUE, heap |-> define(heap, e, name.lexeme, value)]
    ELSE IF heap[e].enclosing.some
         THEN assign(heap, heap[e].enclosing.v, name, value)
         ELSE [ok |-> FALSE, error |-> UndefinedVariable(name)]

\* Environment::get: [ok |-> TRUE, value] or [ok |-> FALSE, error]
RECURSIVE get(_, _, _)
get(heap, e, name) ==
    IF name.lexeme \in DOMAIN heap[e].values
    THEN [ok |-> TRUE, value |-> heap[e].values[name.lexeme]]
    ELSE IF heap[e].enclosing.some
         THEN get(heap, heap[e].enclosing.v, name)
         ELSE [ok |-> FALSE, error |-> UndefinedVariable(name)]

(***************************************************************************)
(* The interpreter's state, as the operators below thread it:              *)
(*   [envs, globals, environment, out, err, now, readings, fuel]           *)
(* where readings are the values that SystemTime::now() is to give at the  *)
(* calls of `clock` to come, in seconds since 1970: the wall clock may go   *)
(* back, and a negative reading is a time before 1970.                     *)
(* and what an evaluation or an execution yields:                          *)
(*   [st, kind, value]                                                     *)
(* kind "Ok" is Ok(value), "Error" is Err(RuntimeError::Error) with the    *)
(* error in value, "Return" is Err(RuntimeError::Return) with the returned *)
(* value.  The other kinds end the process where they arise and pass       *)
(* through every caller: "Exit" (std::process::exit(70)), "Panic" (an      *)
(* unwrap of None), "Diverge" (out of fuel) and "Unmodelled" (a number    *)
(* that is no integer of at most MaxDigits digits).                        *)
(***************************************************************************)
Res(st, kind, value) == [st |-> st, kind |-> kind, value |-> value]

Ok(st, value) == Res(st, "Ok", value)

Error(st, message, token) == Res(st, "Error", RuntimeErrorAt(message, token))

println(st, line) == [st EXCEPT !.out = Append(@, line)]

\* a variant of report_and_exit that reports the error and lets the run go on
report_and_go_on(st, error) ==
    Res([st EXCEPT !.err = Append(@, "[line " \o IntStr(error.line)
                                      \o "] Runtime Error: " \o error.message)],
        "Ok", Nil)

\* writeln!(io::stderr(), "[line {}] Runtime Error: {}", line, message);
\* std::process::exit(70)
report_and_exit(st, error) ==
    Res([st EXCEPT !.err = Append(@, "[line " \o IntStr(error.line)
                                      \o "] Runtime Error: " \o error.message)],
        "Exit", Nil)

\* Evaluate::is_truthy
is_truthy(value) ==
    CASE value.t = "Nil" -> FALSE
      [] value.t = "Boolean" -> value.b
      [] OTHER -> TRUE

\* Evaluate::is_equal; |a - b| < f64::EPSILON is a = b on the integers
is_equal(a, b) ==
    CASE a.t = "Nil" /\ b.t = "Nil" -> TRUE
      [] a.t = "Boolean" /\ b.t = "Boolean" -> a.b = b.b
      [] a.t = "Number" /\ b.t = "Number" -> a.n = b.n
      [] a.t = "String" /\ b.t = "String" -> a.s = b.s
      [] OTHER -> FALSE

\* the Literal arm of Evaluate::evaluate
literal_value(value) ==
    CASE value.lit = "Boolean" -> Boolean(value.b)
      [] value.lit = "Number" -> Signed(value.n, value.negative)
      [] value.lit = "String" -> String(value.s)
      [] OTHER -> Nil

\* whether the f64 a / b is an integer: b is not 0 and divides a
exact_quotient(a, b) == b.n # 0 /\ Abs(a.n) % Abs(b.n) = 0

\* whether the product of a and b is an integer of at most MaxDigits digits
exact_product(a, b) ==
    a.n = 0 \/ b.n = 0 \/ Abs(a.n) <= MaxExact \div Abs(b.n)

\* the number n, when it has at most MaxDigits digits
Kept(n, negative) == IF Abs(n) <= MaxExact THEN Signed(n, negative) ELSE InexactNumber

\* the f64 operations on integers of at most MaxDigits digits.  The sign of a
\* zero result is IEEE 754's: a sum is -0.0 when both terms are, a
\* difference when it is -0.0 - 0.0, a product or a quotient when the signs
\* of the operands differ
f64_add(a, b) == Kept(a.n + b.n, a.negative /\ b.negative)

f64_sub(a, b) == Kept(a.n - b.n, a.negative /\ ~b.negative)

f64_mul(a, b) ==
    IF exact_product(a, b) THEN Signed(a.n * b.n, a.negative # b.negative)
    ELSE InexactNumber

f64_div(a, b) ==
    IF exact_quotient(a, b)
    THEN Signed((IF a.negative # b.negative THEN 0 - 1 ELSE 1)
                    * (Abs(a.n) \div Abs(b.n)),
                a.negative # b.negative)
    ELSE InexactNumber

f64_neg(a) == Signed(0 - a.n, ~a.negative)

\* Ok(value), for a value that the model keeps
kept_value(st, value) ==
    IF value.t = "Number" /\ ~value.exact THEN Res(st, "Unmodelled", Nil)
    ELSE Ok(st, value)

\* the closures that Evaluate::evaluate hands to number_operation, on the
\* Numbers a and b
apply_op(token_type, a, b) ==
    CASE token_type = "MINUS" -> f64_sub(a, b)
      [] token_type = "STAR" -> f64_mul(a, b)
      [] token_type = "SLASH" -> f64_div(a, b)
      [] token_type = "GREATER" -> Boolean(a.n > b.n)
      [] token_type = "GREATER_EQUAL" -> Boolean(a.n >= b.n)
      [] token_type = "LESS" -> Boolean(a.n < b.n)
      [] token_type = "LESS_EQUAL" -> Boolean(a.n <= b.n)

\* a variant of number_operation that looks at the left operand only
number_operation_left_only(st, left, right, operator) ==
    IF left.t = "Number" /\ right.t = "Number"
    THEN kept_value(st, apply_op(operator.token_type, left, right))
    ELSE IF left.t = "Number"
         THEN Ok(st, left)
         ELSE Error(st, "Operands must be numbers.", operator)

\* Evaluate::number_operation
number_operation(st, left, right, operator) ==
    IF left.t = "Number" /\ right.t = "Number"
    THEN kept_value(st, apply_op(operator.token_type, left, right))
    ELSE Error(st, "Operands must be numbers.", operator)

\* the Binary arm of Evaluate::evaluate, after both operands
binary_op(st, left, operator, right) ==
    CASE operator.token_type \in {"MINUS", "SLASH", "STAR", "GREATER",
                                  "GREATER_EQUAL", "LESS", "LESS_EQUAL"} ->
             number_operation(st, left, right, operator)
      [] operator.token_type = "PLUS" ->
             IF left.t = "Number" /\ right.t = "Number"
             THEN kept_value(st, f64_add(left, right))
             ELSE IF left.t = "String" /\ right.t = "String"
                  THEN Ok(st, String(left.s \o right.s))
                  ELSE Error(st, "Operands must be two numbers or two strings.",
                             operator)
      [] operator.token_type = "BANG_EQUAL" -> Ok(st, Boolean(~is_equal(left, right)))
      [] operator.token_type = "EQUAL_EQUAL" -> Ok(st, Boolean(is_equal(left, right)))
      [] OTHER -> Error(st, "Invalid binary operator.", operator)

\* the Unary arm of Evaluate::evaluate, after the operand
unary_op(st, operator, right) ==
    CASE operator.token_type = "MINUS" ->
             IF right.t = "Number"
             THEN Ok(st, f64_neg(right))
             ELSE Error(st, "Operand must be a number.", operator)
      [] operator.token_type = "BANG" -> Ok(st, Boolean(~is_truthy(right)))
      [] OTHER -> Error(st, "Invalid unary operator.", operator)

\* LoxCallable::arity of Clock and of LoxFunction
arity(function) == IF function.native THEN 0 ELSE Len(function.parameter)

\* a variant of the arity test that lets a call with too few arguments through
arity_mismatch_only_excess(arguments, function) == Len(arguments) > arity(function)

\* the arity test of Evaluate::visit_call_expr
arity_mismatch(arguments, function) == Len(arguments) # arity(function)

ArityMessage(function, arguments) ==
    "Expected " \o IntStr(arity(function)) \o " arguments but got "
        \o IntStr(Len(arguments)) \o "."

\* for (param, arg) in self.parameter.iter().zip(arguments) { env.define(..) }
RECURSIVE bind_parameters(_, _, _, _)
bind_parameters(env, parameter, arguments, i) ==
    IF i > Len(parameter) \/ i > Len(arguments)
    THEN env
    ELSE bind_parameters(define_in(env, parameter[i].lexeme, arguments[i]),
                         parameter, arguments, i + 1)

\* the environment LoxFunction::call builds for the parameters
call_environment(function, arguments) ==
    bind_parameters(from_enclosing(function.closure), function.parameter,
                    arguments, 1)

\* a variant of call_result that passes a Return on to the caller
call_result_passing(r) ==
    CASE r.kind = "Ok" -> Ok(r.st, Nil)
      [] OTHER -> r

\* the match on execute_block's result that ends LoxFunction::call
call_result(r) ==
    CASE r.kind = "Ok" -> Ok(r.st, Nil)
      [] r.kind = "Return" -> Ok(r.st, r.value)
      [] OTHER -> r

\* the environment that a Function declaration gives LoxFunction::new as the
\* closure: the environment current at the declaration
declaration_closure(st) == st.environment

\* a variant of left_decides with the tests of `or` and `and` exchanged
left_decides_exchanged(token_type, left) ==
    CASE token_type = "OR" -> ~is_truthy(left)
      [] token_type = "AND" -> is_truthy(left)

\* which operand of a Logical decides it: TRUE when the left one does
left_decides(token_type, left) ==
    CASE token_type = "OR" -> is_truthy(left)
      [] token_type = "AND" -> ~is_truthy(left)

\* a variant of enter_block whose new environment encloses nothing
enter_block_detached(st, previous) ==
    [st EXCEPT !.envs = Append(@, Environment_new),
               !.environment = Len(st.envs) + 1]

\* the first statement of Evaluate::execute_block: the new environment
enter_block(st, previous) ==
    [st EXCEPT !.envs = Append(@, from_enclosing(previous)),
               !.environment = Len(st.envs) + 1]

(***************************************************************************)
(* The evaluator: Evaluate::evaluate, Evaluate::execute and what they      *)
(* call.                                                                   *)
(***************************************************************************)
RECURSIVE evaluate(_, _)
RECURSIVE evaluate_arguments(_, _, _, _)
RECURSIVE visit_call_expr(_, _, _, _)
RECURSIVE visit_logical_expr(_, _, _, _)
RECURSIVE visit_assign_expr(_, _, _)
RECURSIVE call(_, _, _)
RECURSIVE execute(_, _, _)
RECURSIVE execute_block(_, _, _)
RECURSIVE execute_statements(_, _, _)
RECURSIVE visit_while_stmt(_, _, _)
RECURSIVE visit_if_statement(_, _, _, _)
RECURSIVE visit_var_stmt(_, _, _)
RECURSIVE visit_return_stmt(_, _)
RECURSIVE visit_print_stmt(_, _)

\* Evaluate::visit_variable_expr
visit_variable_expr(name, st) ==
    LET g == get(st.envs, st.environment, name)
    IN  IF g.ok THEN Ok(st, g.value) ELSE Res(st, "Error", g.error)

\* Evaluate::visit_assign_expr
visit_assign_expr(expr, name, st) ==
    LET r == evaluate(expr, st)
    IN  IF r.kind # "Ok" THEN r
        ELSE LET a == assign(r.st.envs, r.st.environment, name, r.value)
             IN  IF a.ok
                 THEN Ok([r.st EXCEPT !.envs = a.heap], r.value)
                 ELSE Res(r.st, "Error", a.error)

\* Evaluate::visit_logical_expr
visit_logical_expr(left, operator, right, st) ==
    LET l == evaluate(left, st)
    IN  IF l.kind # "Ok" THEN l
        ELSE IF operator.token_type \notin {"OR", "AND"}
             THEN Error(l.st, "Unknown logical operator", operator)
             ELSE IF left_decides(operator.token_type, l.value)
                  THEN l
                  ELSE evaluate(right, l.st)

\* the loop of Evaluate::visit_call_expr over the argument expressions
evaluate_arguments(arguments, i, st, evaluated_args) ==
    IF i > Len(arguments)
    THEN Ok(st, evaluated_args)
    ELSE LET r == evaluate(arguments[i], st)
         IN  IF r.kind # "Ok" THEN r
             ELSE evaluate_arguments(arguments, i + 1, r.st,
                                     Append(evaluated_args, r.value))

\* Clock::call: the next reading of SystemTime::now().  The unwrap of
\* duration_since(UNIX_EPOCH) panics on a time before 1970; "Unread" ends a
\* statement that reads the clock more often than it has readings
clock_call(st) ==
    IF st.readings = << >> THEN Res(st, "Unread", Nil)
    ELSE IF Head(st.readings) < 0
         THEN Res([st EXCEPT !.readings = Tail(st.readings)], "Panic", Nil)
         ELSE Ok([st EXCEPT !.now = Head(st.readings),
                            !.readings = Tail(st.readings)],
                 Number(Head(st.readings)))

\* LoxFunction::call and Clock::call
call(function, st, arguments) ==
    IF function.native
    THEN clock_call(st)
    ELSE IF st.fuel = 0
         THEN Res(st, "Diverge", Nil)
         ELSE LET env == call_environment(function, arguments)
                  st1 == [st EXCEPT !.envs = Append(@, env), !.fuel = @ - 1]
              IN  call_result(execute_block(function.body, Len(st1.envs), st1))

\* Evaluate::visit_call_expr
visit_call_expr(callee, paren, arguments, st) ==
    LET c == evaluate(callee, st)
    IN  IF c.kind # "Ok" THEN c
        ELSE LET a == evaluate_arguments(arguments, 1, c.st, <<>>)
             IN  IF a.kind # "Ok" THEN a
                 ELSE IF c.value.t = "Function"
                      THEN IF arity_mismatch(arguments, c.value)
                           THEN Error(a.st, ArityMessage(c.value, arguments), paren)
                           ELSE call(c.value, a.st, a.value)
                      ELSE Error(a.st, "Can only call functions and classes.", paren)

\* Evaluate::evaluate
evaluate(expr, st) ==
    CASE expr.kind = "Literal" ->
             IF expr.value.lit = "Number" /\ ~expr.value.exact
             THEN Res(st, "Unmodelled", Nil)
             ELSE Ok(st, literal_value(expr.value))
      [] expr.kind = "Grouping" -> evaluate(expr.expression, st)
      [] expr.kind = "Unary" ->
             LET r == evaluate(expr.right, st)
             IN  IF r.kind # "Ok" THEN r
                 ELSE unary_op(r.st, expr.operator, r.value)
      [] expr.kind = "Variable" -> visit_variable_expr(expr.name, st)
      [] expr.kind = "Assign" -> visit_assign_expr(expr.value, expr.name, st)
      [] expr.kind = "Logical" ->
             visit_logical_expr(expr.left, expr.operator, expr.right, st)
      [] expr.kind = "Call" ->
             visit_call_expr(expr.callee, expr.paren, expr.arguments, st)
      [] expr.kind = "Binary" ->
             LET l == evaluate(expr.left, st)
             IN  IF l.kind # "Ok" THEN l
                 ELSE LET r == evaluate(expr.right, l.st)
                      IN  IF r.kind # "Ok" THEN r
                          ELSE binary_op(r.st, l.value, expr.operator, r.value)
      [] OTHER -> Error(st, "", Token("NIL", "", 0, LitNone))

\* what every statement handler does with the result of an evaluation that
\* is not Ok: an Error is reported and ends the process, a Return is `other`
on_evaluation_failure(r, other) ==
    CASE r.kind = "Error" -> report_and_exit(r.st, r.value)
      [] r.kind = "Return" -> other
      [] OTHER -> r

\* Evaluate::visit_print_stmt
visit_print_stmt(expr, st) ==
    LET r == evaluate(expr, st)
    IN  IF r.kind = "Ok"
        THEN Ok(println(r.st, Display(r.value)), Nil)
        ELSE on_evaluation_failure(r, Ok(r.st, Nil))

\* Evaluate::visit_var_stmt
visit_var_stmt(expr, name, st) ==
    LET r == IF expr.kind = "Null" THEN Ok(st, Nil) ELSE evaluate(expr, st)
    IN  IF r.kind = "Ok"
        THEN Ok([r.st EXCEPT !.envs = define(@, r.st.environment, name.lexeme,
                                             r.value)], Nil)
        ELSE on_evaluation_failure(r, Ok(r.st, Nil))

\* Evaluate::visit_function_stmt
visit_function_stmt(name, parameter, body, st) ==
    LET function == LoxFunction(name, parameter, body, declaration_closure(st))
    IN  [st EXCEPT !.envs = define(@, st.environment, name.lexeme, function)]

\* Evaluate::visit_return_stmt with the match on its Option in
\* Evaluate::execute: Some(val) is Err(Return(val)), None is Ok(()).
\* value.unwrap() panics for the absent value Expr::Null.
visit_return_stmt(stmt_value, st) ==
    IF stmt_value.kind = "Null"
    THEN Res(st, "Panic", Nil)
    ELSE LET r == evaluate(stmt_value, st)
         IN  IF r.kind = "Ok"
             THEN Res(r.st, "Return", r.value)
             ELSE on_evaluation_failure(r, Ok(r.st, Nil))

\* Evaluate::visit_if_statement with the match on its result in
\* Evaluate::execute, which passes a Return on and makes anything else Ok(())
visit_if_statement(condition, then_branch, else_branch, st) ==
    LET c == evaluate(condition, st)
    IN  IF c.kind = "Ok"
        THEN IF is_truthy(c.value)
             THEN execute(then_branch, FALSE, c.st)
             ELSE IF else_branch.some
                  THEN execute(else_branch.v, FALSE, c.st)
                  ELSE Ok(c.st, Nil)
        ELSE on_evaluation_failure(c, Res(c.st, "Return", c.value))

\* what Evaluate::visit_while_stmt makes of the result of one execution of
\* the body: `self.execute(body.clone(), true);` drops it
after_body(b) == IF b.kind = "Return" THEN Ok(b.st, Nil) ELSE b

\* Evaluate::visit_while_stmt
visit_while_stmt(condition, body, st) ==
    LET c == evaluate(condition, st)
    IN  IF c.kind = "Ok"
        THEN IF is_truthy(c.value)
             THEN IF c.st.fuel = 0
                  THEN Res(c.st, "Diverge", Nil)
                  ELSE LET b == after_body(execute(body, TRUE,
                                               [c.st EXCEPT !.fuel = @ - 1]))
                       IN  IF b.kind # "Ok" THEN b
                           ELSE visit_while_stmt(condition, body, b.st)
             ELSE Ok(c.st, Nil)
        ELSE on_evaluation_failure(c, Ok(c.st, Nil))

\* the loop of Evaluate::execute_block over the statements
execute_statements(statements, i, st) ==
    IF i > Len(statements)
    THEN Ok(st, Nil)
    ELSE LET r == execute(statements[i], FALSE, st)
         IN  IF r.kind # "Ok" THEN r
             ELSE execute_statements(statements, i + 1, r.st)

\* Evaluate::execute_block
execute_block(statements, previous, st) ==
    execute_statements(statements, 1, enter_block(st, previous))

\* Evaluate::visit_block_stmt
visit_block_stmt(statements, st) == execute_block(statements, st.environment, st)

\* the Expression arm of Evaluate::execute
execute_expression(expr, eflag, st) ==
    LET r == evaluate(expr, st)
    IN  IF r.kind = "Ok"
        THEN Ok(IF eflag THEN println(r.st, Display(r.value)) ELSE r.st, Nil)
        ELSE on_evaluation_failure(r, Ok(r.st, Nil))

\* Evaluate::execute
execute(stmt, eflag, st) ==
    CASE stmt.kind = "Expression" -> execute_expression(stmt.expr, eflag, st)
      [] stmt.kind = "Print" -> visit_print_stmt(stmt.expr, st)
      [] stmt.kind = "Block" -> visit_block_stmt(stmt.statements, st)
      [] stmt.kind = "Var" -> visit_var_stmt(stmt.expr, stmt.name, st)
      [] stmt.kind = "If" ->
             LET r == visit_if_statement(stmt.condition, stmt.then_branch,
                                         stmt.else_branch, st)
             IN  IF r.kind = "Ok" THEN Ok(r.st, Nil) ELSE r
      [] stmt.kind = "While" -> visit_while_stmt(stmt.condition, stmt.body, st)
      [] stmt.kind = "Function" ->
             Ok(visit_function_stmt(stmt.name, stmt.parameter, stmt.body, st), Nil)
      [] stmt.kind = "Return" -> visit_return_stmt(stmt.value, st)

(***************************************************************************)
(* The parser: Parser of src/src/parse.rs, as the record                   *)
(*   [tokens, current, had_error, evaluate, error, log]                    *)
(* where `current` counts from 0 as in the program and log holds the lines *)
(* written to stderr.  A parsing function yields [p, kind, v]: kind "Ok"   *)
(* with the expression in v, "Err" with the ParseError in v, or "Panic".   *)
(***************************************************************************)
\* self.tokens[i]
TokenAt(p, i) == p.tokens[i + 1]

PRes(p, kind, v) == [p |-> p, kind |-> kind, v |-> v]

ParseError(token, message) == [token |-> token, message |-> message]

\* the token that consume and primary report when there is none to peek at
EofToken == Token("EOF", "", 0, LitNone)

\* eprintln!("Parse error at line {}: {}", error.token.line, error.message)
eprintln(p, error) ==
    [p EXCEPT !.log = Append(@, "Parse error at line " \o IntStr(error.token.line)
                                \o ": " \o error.message)]

\* Parser::peek
peek(p) == IF p.current < Len(p.tokens) THEN Some(TokenAt(p, p.current)) ELSE None

\* Parser::is_at_end
is_at_end(p) ==
    IF p.current >= Len(p.tokens) THEN TRUE
    ELSE TokenAt(p, p.current).token_type = "EOF"

\* a variant of advance that steps over the EOF token too
advance_past_end(p) == [p EXCEPT !.current = @ + 1]

\* Parser::advance
advance(p) == IF ~is_at_end(p) THEN [p EXCEPT !.current = @ + 1] ELSE p

\* Parser::match_token: [p, token: Option<Token>]
match_token(p, token_types) ==
    IF peek(p).some /\ peek(p).v.token_type \in token_types
    THEN [p |-> advance(p), token |-> Some(peek(p).v)]
    ELSE [p |-> p, token |-> None]

\* Parser::consume: [p, error: Option<ParseError>]
consume(p, token_type, message) ==
    IF peek(p).some
    THEN IF peek(p).v.token_type = token_type
         THEN [p |-> advance(p), error |-> None]
         ELSE [p |-> [p EXCEPT !.had_error = TRUE, !.error = 65],
               error |-> Some(ParseError(peek(p).v, message))]
    ELSE [p |-> [p EXCEPT !.had_error = TRUE, !.error = 65],
          error |-> Some(ParseError(EofToken,
                                    message \o " (unexpected end of input)"))]

(***************************************************************************)
(* token.lexeme.parse::<f64>(), by the grammar of f64::from_str, read      *)
(* without regard to case:                                                 *)
(*   Float  ::= Sign? ( 'inf' | 'infinity' | 'nan' | Number )              *)
(*   Number ::= ( Digit+ | Digit+ '.' Digit* | Digit* '.' Digit+ ) Exp?    *)
(*   Exp    ::= 'e' Sign? Digit+                                           *)
(***************************************************************************)
CharAt(s, i) == SubSeq(s, i, i)

From(s, i) == SubSeq(s, i, Len(s))

is_digit(ch) == ch \in {"0", "1", "2", "3", "4", "5", "6", "7", "8", "9"}

DigitValue(ch) ==
    CASE ch = "0" -> 0 [] ch = "1" -> 1 [] ch = "2" -> 2 [] ch = "3" -> 3
      [] ch = "4" -> 4 [] ch = "5" -> 5 [] ch = "6" -> 6 [] ch = "7" -> 7
      [] ch = "8" -> 8 [] ch = "9" -> 9

Least(S) == CHOOSE x \in S : \A y \in S : x <= y

Greatest(S) == CHOOSE x \in S : \A y \in S : x >= y

\* the positions of s from i on that hold no digit
NonDigits(s, i) == { k \in i..Len(s) : ~is_digit(CharAt(s, k)) }

\* the number of digits of s from position i on
digit_run(s, i) ==
    IF i > Len(s) THEN 0
    ELSE IF NonDigits(s, i) = {} THEN Len(s) - i + 1
         ELSE Least(NonDigits(s, i)) - i

\* the positions of s that hold no zero
NonZeros(s) == { k \in 1..Len(s) : CharAt(s, k) # "0" }

strip_leading_zeros(s) ==
    IF NonZeros(s) = {} THEN "" ELSE SubSeq(s, Least(NonZeros(s)), Len(s))

strip_trailing_zeros(s) ==
    IF NonZeros(s) = {} THEN "" ELSE SubSeq(s, 1, Greatest(NonZeros(s)))

\* the number that a string of at most MaxDigits digits writes
RECURSIVE ToNat(_)
ToNat(s) ==
    IF Len(s) = 0 THEN 0
    ELSE 10 * ToNat(SubSeq(s, 1, Len(s) - 1)) + DigitValue(CharAt(s, Len(s)))

LowerCase(ch) ==
    CASE ch = "A" -> "a" [] ch = "E" -> "e" [] ch = "F" -> "f" [] ch = "I" -> "i"
      [] ch = "N" -> "n" [] ch = "T" -> "t" [] ch = "Y" -> "y" [] OTHER -> ch

\* whether s is the word, read without regard to case
is_word(s, word) ==
    /\ Len(s) = Len(word)
    /\ \A i \in 1..Len(s) : LowerCase(CharAt(s, i)) = CharAt(word, i)

is_sign(s, i) == i <= Len(s) /\ CharAt(s, i) \in {"+", "-"}

\* the digits of a fraction 0.d1 d2 .. written by the string
frac_digits(s) == [i \in 1..Len(s) |-> DigitValue(CharAt(s, i))]

digit_at(d, i) == IF i <= Len(d) THEN d[i] ELSE 0

\* the places where the fractions of the digits a and b differ
Differences(a, b) ==
    { i \in 1..(Len(a) + Len(b)) : digit_at(a, i) # digit_at(b, i) }

\* whether the fraction of the digits a is at most that of the digits b
fraction_le(a, b) ==
    IF Differences(a, b) = {} THEN TRUE
    ELSE digit_at(a, Least(Differences(a, b))) < digit_at(b, Least(Differences(a, b)))

\* the digits of 1 - f, for the digits of a fraction f that end in no zero
complement(d) ==
    [i \in 1..Len(d) |-> IF i = Len(d) THEN 10 - d[i] ELSE 9 - d[i]]

\* the digits of 5^j, for the j of the f64 next to an integer of at most
\* MaxDigits digits
Pow5Digits(j) ==
    CASE j = 24 -> "59604644775390625"
      [] j = 25 -> "298023223876953125"
      [] j = 26 -> "1490116119384765625"
      [] j = 27 -> "7450580596923828125"
      [] j = 28 -> "37252902984619140625"
      [] j = 29 -> "186264514923095703125"
      [] j = 30 -> "931322574615478515625"
      [] j = 31 -> "4656612873077392578125"
      [] j = 32 -> "23283064365386962890625"
      [] j = 33 -> "116415321826934814453125"
      [] j = 34 -> "582076609134674072265625"
      [] j = 35 -> "2910383045673370361328125"
      [] j = 36 -> "14551915228366851806640625"
      [] j = 37 -> "72759576141834259033203125"
      [] j = 38 -> "363797880709171295166015625"
      [] j = 39 -> "1818989403545856475830078125"
      [] j = 40 -> "9094947017729282379150390625"
      [] j = 41 -> "45474735088646411895751953125"
      [] j = 42 -> "227373675443232059478759765625"
      [] j = 43 -> "1136868377216160297393798828125"
      [] j = 44 -> "5684341886080801486968994140625"
      [] j = 45 -> "28421709430404007434844970703125"
      [] j = 46 -> "142108547152020037174224853515625"
      [] j = 47 -> "710542735760100185871124267578125"
      [] j = 48 -> "3552713678800500929355621337890625"
      [] j = 49 -> "17763568394002504646778106689453125"
      [] j = 50 -> "88817841970012523233890533447265625"
      [] j = 51 -> "444089209850062616169452667236328125"
      [] j = 52 -> "2220446049250313080847263336181640625"
      [] j = 53 -> "11102230246251565404236316680908203125"
      [] j = 54 -> "55511151231257827021181583404541015625"

\* the j digits of the fraction 5^j / 10^j, p the digits of 5^j
padded(p, j) ==
    [i \in 1..j |-> IF i <= j - Len(p) THEN 0
                    ELSE DigitValue(CharAt(p, i - (j - Len(p))))]

\* the digits of the fraction 2^-j
half_ulp(j) == padded(Pow5Digits(j), j)

RECURSIVE Log2(_)
Log2(n) == IF n < 2 THEN 0 ELSE 1 + Log2(n \div 2)

\* the digits of 5^1075: 2^-1075, half the least f64 above 0, is 323 zeros
\* and then these digits after the point
MinHalfDigits ==
    "2470328229206232720882843964341106861825299013071623822127928412"
    \o "5033775363510437593264991818081799618989828234772285886546332835"
    \o "5177969898199387398005390939063150356595155702263922908583924491"
    \o "0518443593180284993653615250031937045767824921936562366986365848"
    \o "0757001585769269903706311928279558551332927834338409351978015531"
    \o "2465972635795746227664652728272200563740064854999770965994704540"
    \o "2082816622623785739345073633900796776193057750674017632467360096"
    \o "8951340535537458516661134223766678604162159680461914467291840300"
    \o "5300575308490487653917113865916462395249126236538818796362393732"
    \o "8042389101867234849766823508986338858792562830275599565752445550"
    \o "7255189313690836254779186948667994968324049705821028513185451396"
    \o "213837722826145437693412532098591327667236328125"

\* the magnitude n under the sign
signed_f64(n, negative) == F64((IF negative THEN 0 - 1 ELSE 1) * n, negative)

\* the f64 nearest to n + 0.f, for the digits f of a fraction that is not 0
\* and half the distance t of the f64 next to n and to n + 1: n or n + 1
\* when the number is within t of it (a tie goes to the integer, whose
\* mantissa is even), no integer otherwise
nearest(n, f, t, negative) ==
    IF fraction_le(f, t) THEN signed_f64(n, negative)
    ELSE IF fraction_le(complement(f), t) /\ n + 1 <= MaxExact
         THEN signed_f64(n + 1, negative)
         ELSE Inexact

\* the f64 nearest to n + 0.f for the integer n of at most MaxDigits digits:
\* the f64 next to n are 2^(e - 52) from it, e the exponent of n, those
\* below 1 are 2^-53 from it
near_integer(n, f, negative) ==
    nearest(n, f, half_ulp(IF n = 0 THEN 54 ELSE 53 - Log2(n)), negative)

\* the f64 nearest to 0.0..0 digits with `zeros` zeros before the digits: 0
\* when it is at most 2^-1075
near_zero(digits, zeros, negative) ==
    IF zeros = 0 THEN near_integer(0, frac_digits(digits), negative)
    ELSE IF zeros > 323
              \/ (zeros = 323
                  /\ fraction_le(frac_digits(digits), frac_digits(MinHalfDigits)))
         THEN F64(0, negative)
         ELSE Inexact

\* the f64 nearest to the digits with the point after the first p of them
fraction_value(digits, p, negative) ==
    IF p > MaxDigits THEN Inexact
    ELSE IF p <= 0 THEN near_zero(digits, 0 - p, negative)
         ELSE near_integer(ToNat(SubSeq(digits, 1, p)),
                           frac_digits(SubSeq(digits, p + 1, Len(digits))), negative)

\* the f64 nearest to digits * 10^exponent, for digits with no zero at
\* either end
decimal_value(digits, exponent, negative) ==
    IF digits = "" THEN F64(0, negative)
    ELSE IF exponent < 0 THEN fraction_value(digits, Len(digits) + exponent, negative)
         ELSE IF Len(digits) + exponent > MaxDigits THEN Inexact
              ELSE signed_f64(ToNat(digits) * Pow10(exponent), negative)

\* digits * 10^exponent for the digits `trimmed`, which are `stripped` without
\* its last zeros
trimmed_value(stripped, trimmed, exponent, negative) ==
    decimal_value(trimmed, exponent + (Len(stripped) - Len(trimmed)), negative)

stripped_value(stripped, exponent, negative) ==
    trimmed_value(stripped, strip_trailing_zeros(stripped), exponent, negative)

\* the value of the digits `mantissa`, the last `scale` of them after the
\* point, times 10^exponent
scaled_value(mantissa, scale, exponent, negative) ==
    stripped_value(strip_leading_zeros(mantissa), exponent - scale, negative)

\* the value of an exponent of the digits.  An exponent of more than
\* MaxDigits digits is kept as 10^MaxDigits, beyond the exponent of every f64
exponent_value(digits, negative) ==
    (IF negative THEN 0 - 1 ELSE 1)
        * (IF Len(digits) > MaxDigits THEN Pow10(MaxDigits) ELSE ToNat(digits))

\* Sign? Digit+ of Exp, the k digits from position j to the end of s
exponent_digits(s, i, j, k) ==
    IF k = 0 \/ j + k <= Len(s) THEN [ok |-> FALSE]
    ELSE [ok |-> TRUE,
          exponent |-> exponent_value(strip_leading_zeros(SubSeq(s, j, j + k - 1)),
                                      CharAt(s, i + 1) = "-")]

exponent_from(s, i, j) == exponent_digits(s, i, j, digit_run(s, j))

\* Exp? at position i of s, to the end of s: [ok, exponent]
parse_exponent(s, i) ==
    IF i > Len(s) THEN [ok |-> TRUE, exponent |-> 0]
    ELSE IF LowerCase(CharAt(s, i)) # "e" THEN [ok |-> FALSE]
         ELSE exponent_from(s, i, IF is_sign(s, i + 1) THEN i + 2 ELSE i + 1)

\* the f64 of `count` digits in all, x what parse_exponent yields
number_of(mantissa, scale, count, x, negative) ==
    IF count = 0 \/ ~x.ok THEN None
    ELSE Some(scaled_value(mantissa, scale, x.exponent, negative))

\* Digit* '.' Digit* Exp?, k1 digits before the point and k2 after it
with_point(s, k1, k2, negative) ==
    number_of(SubSeq(s, 1, k1) \o SubSeq(s, k1 + 2, k1 + k2 + 1), k2, k1 + k2,
              parse_exponent(s, k1 + k2 + 2), negative)

\* Number after its first k1 digits
after_digits(s, k1, negative) ==
    IF k1 + 1 <= Len(s) /\ CharAt(s, k1 + 1) = "."
    THEN with_point(s, k1, digit_run(s, k1 + 2), negative)
    ELSE number_of(SubSeq(s, 1, k1), 0, k1, parse_exponent(s, k1 + 1), negative)

\* Number, all of s
parse_decimal(s, negative) == after_digits(s, digit_run(s, 1), negative)

\* Sign? taken off: Float without it
parse_unsigned(s, negative) ==
    IF is_word(s, "inf") \/ is_word(s, "infinity") \/ is_word(s, "nan")
    THEN Some(Inexact)
    ELSE parse_decimal(s, negative)

\* token.lexeme.parse::<f64>(): Some(f64), or None for a lexeme that is no
\* number
parse_f64(lexeme) ==
    IF is_sign(lexeme, 1)
    THEN parse_unsigned(From(lexeme, 2), CharAt(lexeme, 1) = "-")
    ELSE parse_unsigned(lexeme, FALSE)

\* format!("{}", token.literal) of the literal of a STRING token
literal_text(literal) == IF literal.lit = "String" THEN literal.s ELSE ""

\* the most arguments of a call
MaxArguments == 255

RECURSIVE expression(_)
RECURSIVE assignment(_)
RECURSIVE assignment_after(_)
RECURSIVE or(_)
RECURSIVE and(_)
RECURSIVE equality(_)
RECURSIVE comparison(_)
RECURSIVE term(_)
RECURSIVE factor(_)
RECURSIVE operand(_, _)
RECURSIVE binary_loop(_, _, _)
RECURSIVE unary(_)
RECURSIVE parse_call(_)
RECURSIVE call_loop(_)
RECURSIVE finish_call(_, _)
RECURSIVE call_arguments(_)
RECURSIVE call_arguments_after(_)
RECURSIVE finish_call_after(_, _)
RECURSIVE more_arguments_after(_, _)
RECURSIVE unary_after(_, _)
RECURSIVE binary_loop_after(_, _, _, _)
RECURSIVE binary_level(_, _)
RECURSIVE binary_level_after(_, _)
RECURSIVE grouping_after(_)
RECURSIVE more_arguments(_, _)
RECURSIVE primary(_)

\* the end of the LEFT_PAREN arm of Parser::primary, c what consume yields
close_grouping(c, expr) ==
    IF c.error.some
    THEN PRes([c.p EXCEPT !.error = 65], "Err", c.error.v)
    ELSE PRes(c.p, "Ok", Grouping(expr))

\* the LEFT_PAREN arm of Parser::primary after `let expr = self.expression()?;`
grouping_after(e) ==
    IF e.kind # "Ok" THEN e
    ELSE close_grouping(consume(e.p, "RIGHT_PAREN", "Expect ')' after expression."),
                        e.v)

\* the NUMBER arm of Parser::primary, f what the parse of the lexeme yields:
\* the unwrap of an Err panics
number_literal(p, f) ==
    IF f.some THEN PRes(advance(p), "Ok", Literal(LitF64(f.v)))
    ELSE PRes(advance(p), "Panic", Null)

\* Parser::primary
primary(p) ==
    IF ~peek(p).some
    THEN PRes(p, "Err", ParseError(EofToken, "Unexpected end of input."))
    ELSE LET token == peek(p).v
         IN  CASE token.token_type = "FALSE" ->
                      PRes(advance(p), "Ok", Literal(LitBoolean(FALSE)))
               [] token.token_type = "TRUE" ->
                      PRes(advance(p), "Ok", Literal(LitBoolean(TRUE)))
               [] token.token_type = "NIL" -> PRes(advance(p), "Ok", Literal(LitNone))
               [] token.token_type = "NUMBER" ->
                      number_literal(p, parse_f64(token.lexeme))
               [] token.token_type = "STRING" ->
                      PRes(advance(p), "Ok",
                           Literal(LitString(literal_text(token.literal))))
               [] token.token_type = "LEFT_PAREN" ->
                      grouping_after(expression(advance(p)))
               [] token.token_type = "IDENTIFIER" ->
                      PRes(advance(p), "Ok",
                           Variable(TokenAt(advance(p), advance(p).current - 1)))
               [] OTHER ->
                      PRes([p EXCEPT !.error = 65, !.had_error = TRUE], "Err",
                           ParseError(token, "Expected expression."))

\* the loop of Parser::finish_call over `, expression`
more_arguments(p, arguments) ==
    IF ~match_token(p, {"COMMA"}).token.some
    THEN PRes(p, "Ok", arguments)
    ELSE more_arguments_after(expression(match_token(p, {"COMMA"}).p), arguments)

\* the body of that loop after `self.expression()`
more_arguments_after(e, arguments) ==
    IF e.kind # "Ok" THEN e
    ELSE IF Len(arguments) >= MaxArguments
         THEN IF peek(e.p).some
              THEN PRes(e.p, "Err",
                        ParseError(peek(e.p).v, "Can't have more than 255 arguments."))
              ELSE PRes(e.p, "Panic", Null)
         ELSE more_arguments(e.p, Append(arguments, e.v))

\* the arguments of Parser::finish_call
call_arguments(p) ==
    IF peek(p).v.token_type # "RIGHT_PAREN"
    THEN call_arguments_after(expression(p))
    ELSE PRes(p, "Ok", << >>)

\* the arguments after the first `self.expression()`
call_arguments_after(e) ==
    IF e.kind # "Ok" THEN e ELSE more_arguments(e.p, <<e.v>>)

\* the end of Parser::finish_call, c what consume yields: a missing `)` is
\* reported and the Call is built all the same, its paren the token before
\* the current one
close_call(c, expr, arguments) ==
    LET q == IF c.error.some
             THEN [eprintln(c.p, c.error.v) EXCEPT !.had_error = TRUE]
             ELSE c.p
    IN  IF q.current = 0
        THEN PRes(q, "Panic", Null)
        ELSE PRes(q, "Ok", Call(expr, TokenAt(q, q.current - 1), arguments))

\* Parser::finish_call
finish_call(p, expr) ==
    IF ~peek(p).some
    THEN PRes(p, "Panic", Null)
    ELSE finish_call_after(call_arguments(p), expr)

\* Parser::finish_call after the arguments, a what parsing them yields
finish_call_after(a, expr) ==
    IF a.kind # "Ok" THEN a
    ELSE close_call(consume(a.p, "RIGHT_PAREN", "Expect ')' after arguments."),
                    expr, a.v)

\* the loop of Parser::call over `(`
call_loop(r) ==
    LET m == match_token(r.p, {"LEFT_PAREN"})
    IN  IF r.kind = "Panic" \/ ~m.token.some
        THEN r
        ELSE IF r.kind = "Ok"
             THEN call_loop(finish_call(m.p, r.v))
             ELSE PRes(m.p, "Err", r.v)

\* Parser::call
parse_call(p) == call_loop(primary(p))

\* Parser::unary
unary(p) ==
    LET m == match_token(p, {"BANG", "MINUS"})
    IN  IF m.token.some
        THEN unary_after(unary(m.p), m.token.v)
        ELSE parse_call(p)

\* Parser::unary after `let right = self.unary()?;`
unary_after(right, op) ==
    IF right.kind # "Ok" THEN right ELSE PRes(right.p, "Ok", Unary(op, right.v))

\* the operators of the levels with those of term and factor exchanged
LevelTokens_exchanged(level) ==
    CASE level = "or" -> {"OR"}
      [] level = "and" -> {"AND"}
      [] level = "equality" -> {"BANG_EQUAL", "EQUAL_EQUAL"}
      [] level = "comparison" -> {"GREATER", "GREATER_EQUAL", "LESS", "LESS_EQUAL"}
      [] level = "term" -> {"SLASH", "STAR"}
      [] level = "factor" -> {"MINUS", "PLUS"}

\* the operators that the function of a level of the grammar matches
LevelTokens(level) ==
    CASE level = "or" -> {"OR"}
      [] level = "and" -> {"AND"}
      [] level = "equality" -> {"BANG_EQUAL", "EQUAL_EQUAL"}
      [] level = "comparison" -> {"GREATER", "GREATER_EQUAL", "LESS", "LESS_EQUAL"}
      [] level = "term" -> {"MINUS", "PLUS"}
      [] level = "factor" -> {"SLASH", "STAR"}

\* the function that parses an operand of a level
operand(p, level) ==
    CASE level = "or" -> and(p)
      [] level = "and" -> equality(p)
      [] level = "equality" -> comparison(p)
      [] level = "comparison" -> term(p)
      [] level = "term" -> factor(p)
      [] level = "factor" -> unary(p)

\* the node a level builds: Logical in or and and, Binary in the others
LevelNode(level, left, operator, right) ==
    IF level \in {"or", "and"}
    THEN Logical(left, operator, right)
    ELSE Binary(left, operator, right)

\* `while let Some(op) = self.match_token(..) { right = ..; expr = .. }`
binary_loop(p, expr, level) ==
    LET m == match_token(p, LevelTokens(level))
    IN  IF ~m.token.some
        THEN PRes(p, "Ok", expr)
        ELSE binary_loop_after(operand(m.p, level), expr, m.token.v, level)

\* the body of that loop after the right operand
binary_loop_after(right, expr, operator, level) ==
    IF right.kind # "Ok" THEN right
    ELSE binary_loop(right.p, LevelNode(level, expr, operator, right.v), level)

\* a level of the grammar: an operand, then the loop
binary_level(p, level) == binary_level_after(operand(p, level), level)

\* a level of the grammar after its first operand
binary_level_after(left, level) ==
    IF left.kind # "Ok" THEN left ELSE binary_loop(left.p, left.v, level)

\* Parser::factor
factor(p) == binary_level(p, "factor")

\* Parser::term
term(p) == binary_level(p, "term")

\* Parser::comparison
comparison(p) == binary_level(p, "comparison")

\* Parser::equality
equality(p) == binary_level(p, "equality")

\* Parser::and
and(p) == binary_level(p, "and")

\* Parser::or
or(p) == binary_level(p, "or")

\* the match on `expr` that ends Parser::assignment, val what the right-hand
\* side's assignment() yields
assignment_target(expr, equals, val) ==
    IF val.kind # "Ok" THEN val
    ELSE IF expr.kind = "Ok"
         THEN IF expr.v.kind = "Variable"
              THEN PRes(val.p, "Ok", Assign(expr.v.name, val.v))
              ELSE PRes(val.p, "Err", ParseError(equals, "Invalid assignment target."))
         ELSE PRes(val.p, "Err", expr.v)

\* Parser::assignment after `let expr = self.or();`
assignment_after(expr) ==
    LET m == match_token(expr.p, {"EQUAL"})
    IN  IF expr.kind = "Panic" \/ ~m.token.some
        THEN expr
        ELSE assignment_target(expr, TokenAt(m.p, m.p.current - 1), assignment(m.p))

\* Parser::assignment
assignment(p) == assignment_after(or(p))

\* Parser::expression
expression(p) == assignment(p)

\* the tokens at which Parser::synchronize stops
StatementStart == {"CLASS", "FUN", "VAR", "FOR", "IF", "WHILE", "PRINT", "RETURN"}

\* the loop of Parser::synchronize
RECURSIVE synchronize_loop(_)
synchronize_loop(p) ==
    IF is_at_end(p) THEN p
    ELSE IF TokenAt(p, p.current - 1).token_type = "SEMICOLON" THEN p
         ELSE LET m == match_token(p, StatementStart)
              IN  IF m.token.some THEN m.p ELSE synchronize_loop(advance(p))

\* Parser::synchronize
synchronize(p) == synchronize_loop(advance(p))

\* the end of Parser::return_stmt, c what consume yields: value.unwrap()
\* panics on the None of a bare `return;`
return_end(keyword, value, c) ==
    IF c.error.some
    THEN PRes(eprintln(c.p, c.error.v), "None", Null)
    ELSE IF value.some
         THEN PRes(c.p, "Some", ReturnStmt(keyword, value.v))
         ELSE PRes(c.p, "Panic", Null)

\* value = Some(expr) for the Ok(expr) of expression() in Parser::return_stmt
return_value(x) == IF x.kind = "Ok" THEN PRes(x.p, "Ok", Some(x.v)) ELSE x

\* Parser::return_stmt after the value, e what expression() yields (Ok with
\* None where there is no expression to parse)
return_after_value(keyword, e) ==
    CASE e.kind = "Panic" -> e
      [] e.kind = "Err" -> PRes(eprintln(e.p, e.v), "None", Null)
      [] OTHER -> return_end(keyword, e.v,
                             consume(e.p, "SEMICOLON", "Expect ';' after return value."))

\* Parser::return_stmt: [p, kind, v] with kind "Some" (v the statement),
\* "None" or "Panic"
return_stmt(p) ==
    IF p.current = 0 \/ ~peek(p).some
    THEN PRes(p, "Panic", Null)
    ELSE return_after_value(
             TokenAt(p, p.current - 1),
             IF peek(p).v.token_type # "SEMICOLON"
             THEN return_value(expression(p))
             ELSE PRes(p, "Ok", None))

(***************************************************************************)
(* The statements of the parser.  A function that yields Option<Stmt>      *)
(* yields [p, kind, v] with kind "Some" (v the statement), "None" or       *)
(* "Panic"; Parser::block yields kind "Ok" with the statements in v, or    *)
(* "Panic".  What follows a call in the body of a function is an operator  *)
(* of its own that takes the call's result.                                *)
(***************************************************************************)
SSome(p, stmt) == PRes(p, "Some", stmt)

SNone(p) == PRes(p, "None", Null)

\* eprintln! of the error and `return None;`
reported(p, error) == SNone(eprintln(p, error))

\* eprintln! of the error and `self.had_error = true;`
flagged(p, error) == [eprintln(p, error) EXCEPT !.had_error = TRUE]

\* Some(expr) for the Ok(expr) of self.expression() in a clause of
\* Parser::for_statement
clause(x) == IF x.kind = "Ok" THEN PRes(x.p, "Ok", Some(x.v)) ELSE x

\* the most parameters of a function
MaxParameters == 255

RECURSIVE declaration(_)
RECURSIVE statement(_)
RECURSIVE block(_)
RECURSIVE block_loop(_, _)
RECURSIVE block_turn(_, _)
RECURSIVE function(_, _)
RECURSIVE function_body(_, _, _)
RECURSIVE for_statement(_)
RECURSIVE for_paren(_)
RECURSIVE for_close(_, _, _, _)
RECURSIVE while_statement(_)
RECURSIVE while_close(_, _)
RECURSIVE if_statement(_)
RECURSIVE if_close(_, _)
RECURSIVE if_then(_, _)

\* Parser::var_declaration after the SEMICOLON is consumed
var_end(c, name, initializer) ==
    IF c.error.some
    THEN SNone([flagged(c.p, c.error.v) EXCEPT !.error = 70])
    ELSE SSome(c.p, VarStmt(name, initializer))

\* Parser::var_declaration after the initializer: an Err of expression()
\* is dropped and leaves the initializer Expr::Null
var_initializer(e, name) ==
    IF e.kind = "Panic" THEN e
    ELSE var_end(consume(e.p, "SEMICOLON", "Expect ';' after variable declaration."),
                 name, IF e.kind = "Ok" THEN e.v ELSE Null)

\* Parser::var_declaration after the name is consumed
var_name(c) ==
    IF c.error.some
    THEN SNone([flagged(c.p, c.error.v) EXCEPT !.error = 70])
    ELSE var_initializer(IF match_token(c.p, {"EQUAL"}).token.some
                         THEN expression(match_token(c.p, {"EQUAL"}).p)
                         ELSE PRes(c.p, "Ok", Null),
                         TokenAt(c.p, c.p.current - 1))

\* Parser::var_declaration
var_declaration(p) == var_name(consume(p, "IDENTIFIER", "Expect variable name."))

\* Parser::print_statement after the SEMICOLON is consumed
print_end(q, e) ==
    IF e.kind = "Ok" THEN SSome(q, PrintStmt(e.v)) ELSE SNone(flagged(q, e.v))

\* `if let Some(error) = self.consume(..) { eprintln!(..); self.had_error = true; }`
semicolon_expected(c) == IF c.error.some THEN flagged(c.p, c.error.v) ELSE c.p

\* Parser::print_statement after `let value = self.expression();`
print_value(e) ==
    IF e.kind = "Panic" THEN e
    ELSE print_end(semicolon_expected(consume(e.p, "SEMICOLON",
                                              "Expect ';' after value.")), e)

\* Parser::print_statement
print_statement(p) == print_value(expression(p))

\* Parser::expression_statement after the SEMICOLON is consumed
expression_end(q, e) ==
    IF e.kind = "Ok" THEN SSome(q, ExpressionStmt(e.v)) ELSE SNone(flagged(q, e.v))

\* Parser::expression_statement after `let expr = self.expression();`: the
\* SEMICOLON is consumed only `if self.evaluate`
expression_value(e) ==
    IF e.kind = "Panic" THEN e
    ELSE expression_end(IF e.p.evaluate
                        THEN semicolon_expected(consume(e.p, "SEMICOLON",
                                                        "Expect ';' after expression."))
                        ELSE e.p, e)

\* Parser::expression_statement
expression_statement(p) == expression_value(expression(p))

\* Some(Stmt::Block(self.block()))
block_statement(b) == IF b.kind = "Panic" THEN b ELSE SSome(b.p, BlockStmt(b.v))

\* Parser::statement
statement(p) ==
    CASE match_token(p, {"IF"}).token.some -> if_statement(advance(p))
      [] match_token(p, {"PRINT"}).token.some -> print_statement(advance(p))
      [] match_token(p, {"WHILE"}).token.some -> while_statement(advance(p))
      [] match_token(p, {"RETURN"}).token.some -> return_stmt(advance(p))
      [] match_token(p, {"FOR"}).token.some -> for_statement(advance(p))
      [] match_token(p, {"LEFT_BRACE"}).token.some -> block_statement(block(advance(p)))
      [] OTHER -> expression_statement(p)

\* Parser::declaration
declaration(p) ==
    CASE match_token(p, {"FUN"}).token.some -> function(advance(p), "function")
      [] match_token(p, {"VAR"}).token.some -> var_declaration(advance(p))
      [] OTHER -> statement(p)

\* the end of Parser::block, c what consume yields
block_end(c, statements) ==
    PRes(IF c.error.some
         THEN [flagged(c.p, c.error.v) EXCEPT !.error = 65]
         ELSE c.p,
         "Ok", statements)

\* the body of the loop of Parser::block, d what declaration() yields
block_turn(d, statements) ==
    CASE d.kind = "Panic" -> d
      [] d.kind = "Some" -> block_loop(d.p, Append(statements, d.v))
      [] OTHER -> block_loop(synchronize(d.p), statements)

\* the loop of Parser::block
block_loop(p, statements) ==
    IF ~is_at_end(p) /\ peek(p).v.token_type # "RIGHT_BRACE"
    THEN block_turn(declaration(p), statements)
    ELSE block_end(consume(p, "RIGHT_BRACE", "Expect '}' after block."), statements)

\* Parser::block
block(p) == block_loop(p, << >>)

\* Parser::while_statement after the body
while_body(b, condition) ==
    IF b.kind # "Some" THEN b ELSE SSome(b.p, WhileStmt(condition, b.v))

\* Parser::while_statement after the RIGHT_PAREN is consumed
while_close(c, condition) ==
    IF c.error.some THEN reported(c.p, c.error.v)
    ELSE while_body(statement(c.p), condition)

\* Parser::while_statement after the condition
while_condition(e) ==
    CASE e.kind = "Panic" -> e
      [] e.kind = "Err" -> reported(e.p, e.v)
      [] OTHER -> while_close(consume(e.p, "RIGHT_PAREN", "Expect ')' after condition."),
                              e.v)

\* Parser::while_statement after the LEFT_PAREN is consumed
while_paren(c) ==
    IF c.error.some THEN reported(c.p, c.error.v) ELSE while_condition(expression(c.p))

\* Parser::while_statement
while_statement(p) == while_paren(consume(p, "LEFT_PAREN", "Expect '(' after 'while'."))

\* Parser::if_statement after the else branch: a branch that failed to parse
\* leaves the If without an else branch
if_else(e, condition, then_branch) ==
    IF e.kind = "Panic" THEN e
    ELSE SSome(e.p, IfStmt(condition, then_branch,
                           IF e.kind = "Some" THEN Some(e.v) ELSE None))

\* Parser::if_statement after the then branch
if_then(t, condition) ==
    IF t.kind # "Some" THEN t
    ELSE IF match_token(t.p, {"ELSE"}).token.some
         THEN if_else(statement(advance(t.p)), condition, t.v)
         ELSE SSome(t.p, IfStmt(condition, t.v, None))

\* Parser::if_statement after the RIGHT_PAREN is consumed
if_close(c, condition) ==
    IF c.error.some THEN reported(c.p, c.error.v)
    ELSE if_then(statement(c.p), condition)

\* Parser::if_statement after the condition
if_condition(e) ==
    CASE e.kind = "Panic" -> e
      [] e.kind = "Err" -> reported(e.p, e.v)
      [] OTHER -> if_close(consume(e.p, "RIGHT_PAREN", "Expect ')' after if condition."),
                           e.v)

\* Parser::if_statement after the LEFT_PAREN is consumed
if_paren(c) ==
    IF c.error.some THEN reported(c.p, c.error.v) ELSE if_condition(expression(c.p))

\* Parser::if_statement
if_statement(p) == if_paren(consume(p, "LEFT_PAREN", "Expect '(' after 'if'."))

\* the statement Parser::for_statement builds of the clauses and the body
for_loop(initializer, condition, increment, body) ==
    LET inner == IF increment.some
                 THEN BlockStmt(<< body, ExpressionStmt(increment.v) >>)
                 ELSE body
        loop == WhileStmt(IF condition.some THEN condition.v
                          ELSE Literal(LitBoolean(TRUE)),
                          inner)
    IN  IF initializer.some THEN BlockStmt(<< initializer.v, loop >>) ELSE loop

\* Parser::for_statement after the body
for_body(b, initializer, condition, increment) ==
    CASE b.kind = "Panic" -> b
      [] b.kind = "None" -> SNone(b.p)
      [] OTHER -> SSome(b.p, for_loop(initializer, condition, increment, b.v))

\* Parser::for_statement after the RIGHT_PAREN is consumed
for_close(c, initializer, condition, increment) ==
    IF c.error.some THEN reported(c.p, c.error.v)
    ELSE for_body(statement(c.p), initializer, condition, increment)

\* Parser::for_statement after the increment
for_increment(e, initializer, condition) ==
    CASE e.kind = "Panic" -> e
      [] e.kind = "Err" -> reported(e.p, e.v)
      [] OTHER -> for_close(consume(e.p, "RIGHT_PAREN", "Expect ')' after for clauses."),
                            initializer, condition, e.v)

\* Parser::for_statement after the SEMICOLON of the condition is consumed
for_semicolon(c, initializer, condition) ==
    IF c.error.some THEN reported(c.p, c.error.v)
    ELSE IF ~peek(c.p).some THEN SNone(c.p)
         ELSE for_increment(IF peek(c.p).v.token_type # "RIGHT_PAREN"
                            THEN clause(expression(c.p))
                            ELSE PRes(c.p, "Ok", None),
                            initializer, condition)

\* Parser::for_statement after the condition
for_condition(e, initializer) ==
    CASE e.kind = "Panic" -> e
      [] e.kind = "Err" -> reported(e.p, e.v)
      [] OTHER -> for_semicolon(consume(e.p, "SEMICOLON",
                                        "Expect ';' after loop condition."),
                                initializer, e.v)

\* Parser::for_statement after the initializer, i what parsing it yields: an
\* initializer that failed to parse is no initializer
for_initializer(i) ==
    IF i.kind = "Panic" THEN i
    ELSE IF ~peek(i.p).some THEN SNone(i.p)
         ELSE for_condition(IF peek(i.p).v.token_type # "SEMICOLON"
                            THEN clause(expression(i.p))
                            ELSE PRes(i.p, "Ok", None),
                            IF i.kind = "Some" THEN Some(i.v) ELSE None)

\* Parser::for_statement after the LEFT_PAREN is consumed
for_paren(c) ==
    IF c.error.some THEN reported(c.p, c.error.v)
    ELSE IF ~peek(c.p).some THEN SNone(c.p)
         ELSE for_initializer(
                  CASE peek(c.p).v.token_type = "SEMICOLON" -> SNone(advance(c.p))
                    [] peek(c.p).v.token_type = "VAR" -> var_declaration(advance(c.p))
                    [] OTHER -> expression_statement(c.p))

\* Parser::for_statement
for_statement(p) == for_paren(consume(p, "LEFT_PAREN", "Expect '(' after 'for'."))

\* Parser::function after the body
function_end(b, name, parameters) ==
    IF b.kind = "Panic" THEN b ELSE SSome(b.p, FunctionStmt(name, parameters, b.v))

\* Parser::function after the LEFT_BRACE is consumed
function_body(c, name, parameters) ==
    IF c.error.some THEN reported(c.p, c.error.v)
    ELSE function_end(block(c.p), name, parameters)

\* Parser::function after the RIGHT_PAREN is consumed
function_brace(c, name, parameters, kind) ==
    IF c.error.some THEN reported(c.p, c.error.v)
    ELSE function_body(consume(c.p, "LEFT_BRACE",
                               "Expect '{' before " \o kind \o " body."),
                       name, parameters)

\* Parser::function after the parameters, r what parsing them yields
function_parameters(r, name, kind) ==
    IF r.kind # "Ok" THEN r
    ELSE function_brace(consume(r.p, "RIGHT_PAREN", "Expect ')' after parameters."),
                        name, r.v, kind)

RECURSIVE parameters(_, _)
\* the body of the loop of Parser::function after a parameter is consumed
parameter_end(c, params) ==
    IF c.error.some THEN reported(c.p, c.error.v)
    ELSE IF ~peek(c.p).some THEN PRes(c.p, "Panic", Null)
         ELSE IF peek(c.p).v.token_type # "COMMA"
              THEN PRes(c.p, "Ok", params)
              ELSE parameters(advance(c.p), params)

\* the loop of Parser::function over the parameters
parameters(p, params) ==
    IF ~peek(p).some THEN PRes(p, "Panic", Null)
    ELSE IF Len(params) >= MaxParameters
         THEN reported(p, ParseError(peek(p).v, "Can't have more than 255 parameters."))
         ELSE parameter_end(consume(p, "IDENTIFIER", "Expect parameter name."),
                            Append(params, peek(p).v))

\* Parser::function after the LEFT_PAREN is consumed
function_paren(c, name, kind) ==
    IF c.error.some THEN reported(c.p, c.error.v)
    ELSE IF ~peek(c.p).some THEN PRes(c.p, "Panic", Null)
         ELSE function_parameters(IF peek(c.p).v.token_type # "RIGHT_PAREN"
                                  THEN parameters(c.p, << >>)
                                  ELSE PRes(c.p, "Ok", << >>),
                                  name, kind)

\* Parser::function after the name is consumed
function_name(c, kind) ==
    IF c.error.some THEN reported(c.p, c.error.v)
    ELSE function_paren(consume(c.p, "LEFT_PAREN",
                                "Expect '(' after " \o kind \o " name."),
                        TokenAt(c.p, c.p.current - 1), kind)

\* Parser::function
function(p, kind) ==
    function_name(consume(p, "IDENTIFIER", "Expect " \o kind \o " name."), kind)

\* one turn of the loop of Parser::parse, r what declaration() yields:
\* [p, statements, status]
parse_turn(r, statements) ==
    [p |-> IF r.kind = "None"
           THEN [synchronize(r.p) EXCEPT !.had_error = TRUE]
           ELSE r.p,
     statements |-> IF r.kind = "Some" THEN Append(statements, r.v) ELSE statements,
     status |-> IF r.kind = "Panic" THEN "panic" ELSE "parsing"]

(***************************************************************************)
(* The lexer of `tokenize`.  A source is a sequence of characters, each a  *)
(* string of length one; l is the Lexer as far as scanning changes it:     *)
(* [had_error, log], log the lines of stderr.  A scan yields               *)
(* [l, chars, token]: the lexer, the characters left, Option<Token>.       *)
(***************************************************************************)
\* Token of the lexer: the payload of NUMBER is << org_value, value >>, that
\* of STRING and of IDENTIFIER is << value >>
LexerToken(token_type, payload, lexeme, line) ==
    [token_type |-> token_type, payload |-> payload, lexeme |-> lexeme,
     line |-> line]

SRes(l, chars, token) == [l |-> l, chars |-> chars, token |-> token]

\* the String of the characters
RECURSIVE Join(_)
Join(chars) == IF chars = << >> THEN "" ELSE Head(chars) \o Join(Tail(chars))

Digits == {"0", "1", "2", "3", "4", "5", "6", "7", "8", "9"}

Letters == {"a", "b", "o", "r"}

\* char::is_whitespace, on the characters of the sources
is_whitespace(ch) == ch \in {" ", "\n", "\t", "\r"}

\* char::is_alphanumeric, on the characters of the sources
is_alphanumeric(ch) == ch \in Letters \cup Digits

keywords(key) ==
    CASE key = "and" -> Some("AND")
      [] key = "class" -> Some("CLASS")
      [] key = "else" -> Some("ELSE")
      [] key = "false" -> Some("FALSE")
      [] key = "for" -> Some("FOR")
      [] key = "fun" -> Some("FUN")
      [] key = "if" -> Some("IF")
      [] key = "nil" -> Some("NIL")
      [] key = "or" -> Some("OR")
      [] key = "print" -> Some("PRINT")
      [] key = "return" -> Some("RETURN")
      [] key = "super" -> Some("SUPER")
      [] key = "this" -> Some("THIS")
      [] key = "true" -> Some("TRUE")
      [] key = "var" -> Some("VAR")
      [] key = "while" -> Some("WHILE")
      [] OTHER -> None

\* Lexer::make_token
make_token(token_type, lexeme, line) == LexerToken(token_type, << >>, lexeme, line)

\* Lexer::error without the flag: the message only
error_without_flag(l, line, message) ==
    [l EXCEPT !.log = Append(@, "[line " \o IntStr(line) \o "] Error: " \o message)]

\* Lexer::error
error(l, line, message) ==
    [l EXCEPT !.log = Append(@, "[line " \o IntStr(line) \o "] Error: " \o message),
              !.had_error = TRUE]

\* Lexer::match_next
match_next(l, chars, current, expected, double_type, single_type, line) ==
    IF chars # << >> /\ Head(chars) = expected
    THEN SRes(l, Tail(chars), Some(make_token(double_type, current \o expected, line)))
    ELSE SRes(l, chars, Some(make_token(single_type, current, line)))

\* the loop of scan_token over a comment: up to the end of the line
RECURSIVE comment(_)
comment(chars) ==
    IF chars = << >> \/ Head(chars) = "\n" THEN chars ELSE comment(Tail(chars))

\* Lexer::scan_string, value the characters of the string so far
RECURSIVE scan_string(_, _, _, _)
scan_string(l, chars, line, value) ==
    IF chars = << >>
    THEN SRes(error(l, line, "Unterminated string."), chars, None)
    ELSE IF Head(chars) = "\""
         THEN SRes(l, Tail(chars),
                   Some(LexerToken("STRING", << Join(value) >>,
                                   "\"" \o Join(value) \o "\"", line)))
         ELSE scan_string(l, Tail(chars),
                          IF Head(chars) = "\n" THEN line + 1 ELSE line,
                          Append(value, Head(chars)))

\* the loop of Lexer::scan_num: [chars, value, org_value, deci]
RECURSIVE number_loop(_, _, _, _, _)
number_loop(chars, value, org_value, zeroes, deci) ==
    IF chars = << >> \/ Head(chars) \notin Digits \cup {"."}
    THEN [chars |-> chars, value |-> value, org_value |-> org_value, deci |-> deci]
    ELSE CASE Head(chars) = "0" ->
                  number_loop(Tail(chars),
                              IF deci THEN value ELSE Append(value, "0"),
                              Append(org_value, "0"),
                              IF deci THEN Append(zeroes, "0") ELSE zeroes,
                              deci)
           [] Head(chars) = "." ->
                  number_loop(Tail(chars), Append(value, "."),
                              Append(org_value, "."), zeroes, TRUE)
           [] OTHER ->
                  number_loop(Tail(chars), Append(value \o zeroes, Head(chars)),
                              Append(org_value, Head(chars)), << >>, deci)

\* the value of the NUMBER token: `.0` after an integer, `0` after a last `.`
number_value(value, deci) ==
    IF ~deci THEN value \o << ".", "0" >>
    ELSE IF value[Len(value)] = "." THEN Append(value, "0") ELSE value

\* the end of Lexer::scan_num, n what the loop yields
number_token(l, n, line) ==
    SRes(l, n.chars,
         Some(LexerToken("NUMBER",
                         << Join(n.org_value), Join(number_value(n.value, n.deci)) >>,
                         "\"" \o Join(number_value(n.value, n.deci)) \o "\"", line)))

\* Lexer::scan_num
scan_num(l, num, chars, line) ==
    number_token(l, number_loop(chars, << num >>, << num >>, << >>, FALSE), line)

\* the loop of Lexer::scan_identifier: [chars, identifier]
RECURSIVE identifier_loop(_, _)
identifier_loop(chars, identifier) ==
    IF chars # << >> /\ (is_alphanumeric(Head(chars)) \/ Head(chars) = "_")
    THEN identifier_loop(Tail(chars), Append(identifier, Head(chars)))
    ELSE [chars |-> chars, identifier |-> Join(identifier)]

\* the end of Lexer::scan_identifier, i what the loop yields
identifier_token(l, i, line) ==
    SRes(l, i.chars,
         Some(IF keywords(i.identifier).some
              THEN LexerToken(keywords(i.identifier).v, << >>, i.identifier, line)
              ELSE LexerToken("IDENTIFIER", << i.identifier >>,
                              "\"" \o i.identifier \o "\"", line)))

\* Lexer::scan_identifier
scan_identifier(l, num, chars, line) ==
    identifier_token(l, identifier_loop(chars, << num >>), line)

\* the type of the token of one character
SingleCharacter(ch) ==
    CASE ch = "(" -> "LEFT_PAREN"
      [] ch = ")" -> "RIGHT_PAREN"
      [] ch = "{" -> "LEFT_BRACE"
      [] ch = "}" -> "RIGHT_BRACE"
      [] ch = "*" -> "STAR"
      [] ch = "." -> "DOT"
      [] ch = "," -> "COMMA"
      [] ch = "+" -> "PLUS"
      [] ch = "-" -> "MINUS"
      [] ch = ";" -> "SEMICOLON"

\* Lexer::scan_token
scan_token(l, ch, chars, line) ==
    CASE ch \in {"(", ")", "{", "}", "*", ".", ",", "+", "-", ";"} ->
             SRes(l, chars, Some(make_token(SingleCharacter(ch), ch, line)))
      [] ch = "=" -> match_next(l, chars, "=", "=", "EQUAL_EQUAL", "EQUAL", line)
      [] ch = "!" -> match_next(l, chars, "!", "=", "BANG_EQUAL", "BANG", line)
      [] ch = "<" -> match_next(l, chars, "<", "=", "LESS_EQUAL", "LESS", line)
      [] ch = ">" -> match_next(l, chars, ">", "=", "GREATER_EQUAL", "GREATER", line)
      [] ch = "/" ->
             IF chars # << >> /\ Head(chars) = "/"
             THEN SRes(l, comment(Tail(chars)), None)
             ELSE SRes(l, chars, Some(make_token("SLASH", "/", line)))
      [] ch = "\"" -> scan_string(l, chars, line, << >>)
      [] ch \in Digits -> scan_num(l, ch, chars, line)
      [] is_whitespace(ch) -> SRes(l, chars, None)
      [] ch = "_" \/ is_alphanumeric(ch) -> scan_identifier(l, ch, chars, line)
      [] OTHER -> SRes(error(l, line, "Unexpected character: " \o ch), chars, None)

\* the lines that Lexer::lex counts after the character
lines_after(s, ch) == IF ch = "\n" THEN s.line + 1 ELSE s.line

\* one turn of the loop of Lexer::lex, s the lexer and the locals of lex:
\* [l, chars, line, current_line, tokens]; r what scan_token yields
lex_scanned(s, ch, r) ==
    [l |-> r.l,
     chars |-> r.chars,
     line |-> lines_after(s, ch),
     current_line |-> IF ch = "\n" THEN lines_after(s, ch) + 1 ELSE s.current_line,
     tokens |-> IF r.token.some THEN Append(s.tokens, r.token.v) ELSE s.tokens]

lex_turn(s) ==
    lex_scanned(s, Head(s.chars),
                scan_token(s.l, Head(s.chars), Tail(s.chars),
                           IF Head(s.chars) = "\n"
                           THEN lines_after(s, Head(s.chars)) + 1
                           ELSE s.current_line))

\* the token that Lexer::lex pushes after the loop
Eof(line) == LexerToken("Eof", << >>, "EOF", line)

\* a variant of lex_loop without the Eof token
RECURSIVE lex_loop_without_eof(_)
lex_loop_without_eof(s) ==
    IF s.chars = << >> THEN s ELSE lex_loop_without_eof(lex_turn(s))

\* the loop of Lexer::lex from s on, and the Eof after it
RECURSIVE lex_loop(_)
lex_loop(s) ==
    IF s.chars = << >>
    THEN [s EXCEPT !.tokens = Append(@, Eof(s.current_line))]
    ELSE lex_loop(lex_turn(s))

\* Lexer::new and the locals of Lexer::lex before its loop
lex_start(chars, log) ==
    [l |-> [had_error |-> FALSE, log |-> log], chars |-> chars, line |-> 0,
     current_line |-> 1, tokens |-> << >>]

\* Lexer::lex
lex(chars) == lex_loop(lex_start(chars, << >>))

\* the line that run_lexer of main.rs prints of a token: an IDENTIFIER is
\* printed as {:?} prints it
token_line(token) ==
    CASE token.token_type = "STRING" ->
             "STRING \"" \o token.payload[1] \o "\" " \o token.payload[1]
      [] token.token_type = "NUMBER" ->
             "NUMBER " \o token.payload[1] \o " " \o token.payload[2]
      [] token.token_type = "Eof" -> "EOF  null"
      [] token.token_type = "IDENTIFIER" ->
             "IDENTIFIER(\"" \o token.payload[1] \o "\") " \o token.lexeme \o " null"
      [] OTHER -> token.token_type \o " " \o token.lexeme \o " null"

\* the line that run_lexer of lexer.rs prints of a token: an IDENTIFIER is
\* printed by its name
lexer_token_line(token) ==
    CASE token.token_type = "STRING" ->
             "STRING \"" \o token.payload[1] \o "\" " \o token.payload[1]
      [] token.token_type = "NUMBER" ->
             "NUMBER " \o token.payload[1] \o " " \o token.payload[2]
      [] token.token_type = "IDENTIFIER" -> "IDENTIFIER " \o token.payload[1] \o " null"
      [] token.token_type = "Eof" -> "EOF  null"
      [] OTHER -> token.token_type \o " " \o token.lexeme \o " null"

(***************************************************************************)
(* Programs.  Every token of the programs below is on line 1.              *)
(***************************************************************************)
Num(n) == Literal(LitNumber(n))
Str(s) == Literal(LitString(s))
Bool(b) == Literal(LitBoolean(b))
NilLit == Literal(LitNone)
V(x) == Variable(Ident(x, 1))
Set(x, e) == Assign(Ident(x, 1), e)
Bin(l, token_type, r) == Binary(l, Op(token_type, 1), r)
Log(l, token_type, r) == Logical(l, Op(token_type, 1), r)
CallOf(callee, arguments) == Call(callee, Op("RIGHT_PAREN", 1), arguments)
VarDecl(x, e) == VarStmt(Ident(x, 1), e)
Fun(f, parameter, body) ==
    FunctionStmt(Ident(f, 1), [i \in 1..Len(parameter) |-> Ident(parameter[i], 1)],
                 body)
Ret(e) == ReturnStmt(Op("RETURN", 1), e)

\* var a = 1; { var a = 2; print a; } print a;
ShadowProgram ==
    << VarDecl("a", Num(1)),
       BlockStmt(<<VarDecl("a", Num(2)), PrintStmt(V("a"))>>),
       PrintStmt(V("a")) >>

\* the body of the loop of ReturnInLoopProgram ends in `return i;` at
\* nesting depth d
ReturnAtDepth(d) ==
    CASE d = 0 -> Ret(V("i"))
      [] d = 1 -> IfStmt(Bool(TRUE), Ret(V("i")), None)
      [] OTHER -> BlockStmt(<<IfStmt(Bool(TRUE), BlockStmt(<<Ret(V("i"))>>), None)>>)

\* fun g() { var i = 0; while (i < 2) { i = i + 1; print i; return i; }
\*           return 9; }
\* print g();
ReturnInLoopProgram(d) ==
    << Fun("g", << >>,
           << VarDecl("i", Num(0)),
              WhileStmt(Bin(V("i"), "LESS", Num(2)),
                        BlockStmt(<< ExpressionStmt(Set("i", Bin(V("i"), "PLUS", Num(1)))),
                                     PrintStmt(V("i")),
                                     ReturnAtDepth(d) >>)),
              Ret(Num(9)) >>),
       PrintStmt(CallOf(V("g"), << >>)) >>

\* fun g() { for (var i = 1; i < 3; i = i + 1) { print i; return i; }
\*           return 9; }
\* print g();
\* with the `for` as Parser::for_statement lowers it
ReturnInForProgram ==
    << Fun("g", << >>,
           << BlockStmt(<< VarDecl("i", Num(1)),
                           WhileStmt(Bin(V("i"), "LESS", Num(3)),
                               BlockStmt(<< BlockStmt(<< PrintStmt(V("i")),
                                                         Ret(V("i")) >>),
                                            ExpressionStmt(Set("i",
                                                Bin(V("i"), "PLUS", Num(1)))) >>)) >>),
              Ret(Num(9)) >>),
       PrintStmt(CallOf(V("g"), << >>)) >>

\* fun h() { while (true) return 7; } print h();
ReturnFromBareLoopProgram ==
    << Fun("h", << >>, << WhileStmt(Bool(TRUE), Ret(Num(7))) >>),
       PrintStmt(CallOf(V("h"), << >>)) >>

\* the programs with a `return` in a loop, each with the output it is to have
ReturnInLoopCases ==
    { [prog |-> ReturnInLoopProgram(d), out |-> <<"1", "1">>] : d \in 0..2 }
    \cup { [prog |-> ReturnInForProgram, out |-> <<"1", "1">>],
           [prog |-> ReturnFromBareLoopProgram, out |-> <<"7">>] }

\* fun f(n) { if (n <= 1) return n; return f(n - 1) + f(n - 2); } print f(k);
FibProgram(k) ==
    << Fun("f", <<"n">>,
           << IfStmt(Bin(V("n"), "LESS_EQUAL", Num(1)), Ret(V("n")), None),
              Ret(Bin(CallOf(V("f"), <<Bin(V("n"), "MINUS", Num(1))>>), "PLUS",
                      CallOf(V("f"), <<Bin(V("n"), "MINUS", Num(2))>>))) >>),
       PrintStmt(CallOf(V("f"), <<Num(k)>>)) >>

RECURSIVE Fib(_)
Fib(k) == IF k <= 1 THEN k ELSE Fib(k - 1) + Fib(k - 2)

\* fun d(n) { if (n > 0) d(n - 1); print n; } d(k);
CountProgram(k) ==
    << Fun("d", <<"n">>,
           << IfStmt(Bin(V("n"), "GREATER", Num(0)),
                     ExpressionStmt(CallOf(V("d"), <<Bin(V("n"), "MINUS", Num(1))>>)),
                     None),
              PrintStmt(V("n")) >>),
       ExpressionStmt(CallOf(V("d"), <<Num(k)>>)) >>

\* the recursive programs, each with the output it is to have
RecursionCases ==
    { [prog |-> FibProgram(k), out |-> <<IntStr(Fib(k))>>] : k \in 0..MaxArg }
    \cup { [prog |-> CountProgram(k), out |-> [i \in 1..(k + 1) |-> IntStr(i - 1)]] :
           k \in 0..MaxArg }

\* fun mk() { var i = 0; fun inc() { i = i + 1; print i; } return inc; }
\* var c = mk(); c(); c(); c();
CounterProgram ==
    << Fun("mk", << >>,
           << VarDecl("i", Num(0)),
              Fun("inc", << >>,
                  << ExpressionStmt(Set("i", Bin(V("i"), "PLUS", Num(1)))),
                     PrintStmt(V("i")) >>),
              Ret(V("inc")) >>),
       VarDecl("c", CallOf(V("mk"), << >>)),
       ExpressionStmt(CallOf(V("c"), << >>)),
       ExpressionStmt(CallOf(V("c"), << >>)),
       ExpressionStmt(CallOf(V("c"), << >>)) >>

\* var x = 1; fun g() { print x; } x = 2; g();
LateBindingProgram ==
    << VarDecl("x", Num(1)),
       Fun("g", << >>, << PrintStmt(V("x")) >>),
       ExpressionStmt(Set("x", Num(2))),
       ExpressionStmt(CallOf(V("g"), << >>)) >>

\* fun g() {} { var x = 1; fun f() { g(); print x; } f(); }
CaptureAcrossCallProgram ==
    << Fun("g", << >>, << >>),
       BlockStmt(<< VarDecl("x", Num(1)),
                    Fun("f", << >>, << ExpressionStmt(CallOf(V("g"), << >>)),
                                       PrintStmt(V("x")) >>),
                    ExpressionStmt(CallOf(V("f"), << >>)) >>) >>

\* the programs with closures, each with the output it is to have
ClosureCases ==
    { [prog |-> CounterProgram, out |-> <<"1", "2", "3">>],
      [prog |-> LateBindingProgram, out |-> <<"2">>],
      [prog |-> CaptureAcrossCallProgram, out |-> <<"1">>] }

\* literals, each with the line `print` writes for its value
Shown ==
    { [e |-> Str("outer"), shown |-> "outer"],
      [e |-> Str("inner"), shown |-> "inner"],
      [e |-> Num(1), shown |-> "1"],
      [e |-> NilLit, shown |-> "nil"],
      [e |-> Bool(TRUE), shown |-> "true"] }

\* var a = <outer>; { fun f() { print a; } <between> var a = <inner>; f(); }
LateDeclarationProgram(outer, between, inner) ==
    << VarDecl("a", outer),
       BlockStmt(<< Fun("f", << >>, << PrintStmt(V("a")) >>) >>
                 \o between
                 \o << VarDecl("a", inner),
                       ExpressionStmt(CallOf(V("f"), << >>)) >>) >>

\* what stands between the declaration of f and the later `var a`: nothing,
\* or statements that neither read nor write `a`
Between == { << >>, << BlockStmt(<< >>) >>, << PrintStmt(Num(0)) >> }

LateDeclarationCases ==
    { [prog |-> LateDeclarationProgram(o.e, b, i.e), between |-> b,
       out |-> (IF b = << PrintStmt(Num(0)) >> THEN <<"0">> ELSE << >>) \o <<i.shown>>] :
      o \in Shown, b \in Between, i \in Shown }

\* operand expressions, each with the value it evaluates to
Operands ==
    { [e |-> NilLit, v |-> Nil],
      [e |-> Bool(FALSE), v |-> Boolean(FALSE)],
      [e |-> Bool(TRUE), v |-> Boolean(TRUE)],
      [e |-> Num(0), v |-> Number(0)],
      [e |-> Num(1), v |-> Number(1)],
      [e |-> Str(""), v |-> String("")],
      [e |-> Str("x"), v |-> String("x")],
      [e |-> V("clock"), v |-> Clock] }

\* var m = "unset"; var r = <a> <op> (m = <b>);
LogicalProgram(a, token_type, b) ==
    << VarDecl("m", Str("unset")),
       VarDecl("r", Log(a, token_type, Set("m", b))) >>

LogicalCases ==
    { [prog |-> LogicalProgram(a.e, o, b.e), a |-> a.v, op |-> o, b |-> b.v] :
      a \in Operands, o \in {"AND", "OR"}, b \in Operands }

\* fun f() { return 1; }
\* fun g() { f(); print 2; if (f() == 1) print f() + 2; return 4; print 5; }
\* print g();
CalleeReturnProgram ==
    << Fun("f", << >>, << Ret(Num(1)) >>),
       Fun("g", << >>,
           << ExpressionStmt(CallOf(V("f"), << >>)),
              PrintStmt(Num(2)),
              IfStmt(Bin(CallOf(V("f"), << >>), "EQUAL_EQUAL", Num(1)),
                     PrintStmt(Bin(CallOf(V("f"), << >>), "PLUS", Num(2))), None),
              Ret(Num(4)),
              PrintStmt(Num(5)) >>),
       PrintStmt(CallOf(V("g"), << >>)) >>

\* print <a> <op> <b>;
BinaryProgram(a, token_type, b) == << PrintStmt(Bin(a, token_type, b)) >>

NumberOperators ==
    {"MINUS", "STAR", "SLASH", "LESS", "LESS_EQUAL", "GREATER", "GREATER_EQUAL"}

BinaryCases ==
    { [prog |-> BinaryProgram(a.e, o, b.e), a |-> a.v, op |-> o, b |-> b.v] :
      a \in Operands, o \in NumberOperators \cup {"PLUS", "EQUAL_EQUAL", "BANG_EQUAL"},
      b \in Operands }

Neg(e) == Unary(Op("MINUS", 1), e)

\* print <a> <op> <b>; for numbers of either sign and zeros of either sign
SignedOperands == {Num(0), Neg(Num(0)), Num(1), Neg(Num(1)), Num(6), Neg(Num(3))}

SignedPrograms ==
    { BinaryProgram(a, o, b) :
      a \in SignedOperands, o \in {"PLUS", "MINUS", "STAR", "SLASH"},
      b \in SignedOperands }

\* var t = clock(); print clock() - t; print clock() == t;
ElapsedProgram ==
    << VarDecl("t", CallOf(V("clock"), << >>)),
       PrintStmt(Bin(CallOf(V("clock"), << >>), "MINUS", V("t"))),
       PrintStmt(Bin(CallOf(V("clock"), << >>), "EQUAL_EQUAL", V("t"))) >>

ParamName(i) == "p" \o IntStr(i)

\* fun p(p1, .., pN) { print p1; ..; print pN; }
\* p(11, .., 10 + M);
\* with the closing parenthesis of the call on line 2
ArityProgram(n, m) ==
    << Fun("p", [i \in 1..n |-> ParamName(i)],
           [i \in 1..n |-> PrintStmt(V(ParamName(i)))]),
       ExpressionStmt(Call(V("p"), Op("RIGHT_PAREN", 2),
                           [i \in 1..m |-> Num(10 + i)])) >>

\* var t = 0; clock(11, .., 10 + M);
ClockArityProgram(m) ==
    << VarDecl("t", Num(0)),
       ExpressionStmt(Call(V("clock"), Op("RIGHT_PAREN", 2),
                           [i \in 1..m |-> Num(10 + i)])) >>

ArityCases ==
    { [prog |-> ArityProgram(n, m), n |-> n, m |-> m, native |-> FALSE] :
      n \in 0..MaxParams, m \in 0..(MaxParams + 1) }
    \cup { [prog |-> ClockArityProgram(m), n |-> 0, m |-> m, native |-> TRUE] :
           m \in 0..(MaxParams + 1) }

\* var m = "unset"; <callee>(m = 1);
\* with the closing parenthesis of the call on line 2
NotCallableProgram(callee) ==
    << VarDecl("m", Str("unset")),
       ExpressionStmt(Call(callee, Op("RIGHT_PAREN", 2), << Set("m", Num(1)) >>)) >>

\* callees that evaluate to a value that is not callable
NotCallable == { Num(1), Str("x"), NilLit, Bool(TRUE), V("m") }

NotCallableCases == { NotCallableProgram(callee) : callee \in NotCallable }

\* i = i + 1
Increment == ExpressionStmt(Set("i", Bin(V("i"), "PLUS", Num(1))))

\* the places of a program where a statement may stand
Places == {"top", "block", "if", "else", "while", "while block", "function"}

\* var i = 0; and then `i = i + 1;` at the place:
\*   top            i = i + 1;
\*   block          { i = i + 1; }
\*   if             if (true) i = i + 1;
\*   else           if (false) {} else i = i + 1;
\*   while          while (i < 2) i = i + 1;
\*   while block    while (i < 2) { i = i + 1; }
\*   function       fun f() { i = i + 1; } f();
ExpressionAt(place) ==
    << VarDecl("i", Num(0)) >> \o
    CASE place = "top" -> << Increment >>
      [] place = "block" -> << BlockStmt(<< Increment >>) >>
      [] place = "if" -> << IfStmt(Bool(TRUE), Increment, None) >>
      [] place = "else" -> << IfStmt(Bool(FALSE), BlockStmt(<< >>), Some(Increment)) >>
      [] place = "while" -> << WhileStmt(Bin(V("i"), "LESS", Num(2)), Increment) >>
      [] place = "while block" ->
             << WhileStmt(Bin(V("i"), "LESS", Num(2)), BlockStmt(<< Increment >>)) >>
      [] place = "function" ->
             << Fun("f", << >>, << Increment >>),
                ExpressionStmt(CallOf(V("f"), << >>)) >>

ExpressionCases == { ExpressionAt(place) : place \in Places }

\* expressions on line 3 whose evaluation fails, each with the report of its
\* failure
Failing ==
    { [e |-> Variable(Ident("u", 3)),
       report |-> "[line 3] Runtime Error: Undefined variable 'u'."],
      [e |-> Call(Num(1), Op("RIGHT_PAREN", 3), << >>),
       report |-> "[line 3] Runtime Error: Can only call functions and classes."],
      [e |-> Assign(Ident("u", 3), Num(1)),
       report |-> "[line 3] Runtime Error: Undefined variable 'u'."] }

\* the places of a program where an expression may be evaluated
ErrorPlaces ==
    {"top", "block", "if condition", "if branch", "while condition", "while body",
     "var", "return", "function"}

\* print 1; and then the failing expression e at the place, followed by
\* prints that are not to happen:
\*   top              print e; print 2;
\*   block            { print e; print 2; } print 3;
\*   if condition     if (e) print 2; else print 3; print 4;
\*   if branch        if (true) { print e; print 2; } print 3;
\*   while condition  while (e) print 2; print 3;
\*   while body       while (true) { print e; print 2; } print 3;
\*   var              var x = e; print 2;
\*   return           fun f() { return e; print 2; } print f(); print 3;
\*   function         fun f() { print e; print 2; } print f(); print 3;
ErrorAt(place, e) ==
    << PrintStmt(Num(1)) >> \o
    CASE place = "top" -> << PrintStmt(e), PrintStmt(Num(2)) >>
      [] place = "block" ->
             << BlockStmt(<< PrintStmt(e), PrintStmt(Num(2)) >>), PrintStmt(Num(3)) >>
      [] place = "if condition" ->
             << IfStmt(e, PrintStmt(Num(2)), Some(PrintStmt(Num(3)))),
                PrintStmt(Num(4)) >>
      [] place = "if branch" ->
             << IfStmt(Bool(TRUE), BlockStmt(<< PrintStmt(e), PrintStmt(Num(2)) >>),
                       None),
                PrintStmt(Num(3)) >>
      [] place = "while condition" ->
             << WhileStmt(e, PrintStmt(Num(2))), PrintStmt(Num(3)) >>
      [] place = "while body" ->
             << WhileStmt(Bool(TRUE), BlockStmt(<< PrintStmt(e), PrintStmt(Num(2)) >>)),
                PrintStmt(Num(3)) >>
      [] place = "var" -> << VarDecl("x", e), PrintStmt(Num(2)) >>
      [] place = "return" ->
             << Fun("f", << >>, << Ret(e), PrintStmt(Num(2)) >>),
                PrintStmt(CallOf(V("f"), << >>)),
                PrintStmt(Num(3)) >>
      [] place = "function" ->
             << Fun("f", << >>, << PrintStmt(e), PrintStmt(Num(2)) >>),
                PrintStmt(CallOf(V("f"), << >>)),
                PrintStmt(Num(3)) >>

\* the number of the top-level statement in which the failure happens
FailingStatement(place) == IF place \in {"return", "function"} THEN 3 ELSE 2

ErrorCases ==
    { [prog |-> ErrorAt(place, f.e), at |-> FailingStatement(place),
       report |-> f.report] : place \in ErrorPlaces, f \in Failing }

\* expressions on line 3 that assign to or read the name `u`, which no scope
\* defines
OnUndefined ==
    { Assign(Ident("u", 3), Num(1)),
      Variable(Ident("u", 3)),
      Assign(Ident("a", 3), Assign(Ident("u", 3), Num(1))),
      Bin(Num(1), "PLUS", Assign(Ident("u", 3), Num(1))) }

\* the statements that evaluate e at top level, in a block after a `var` of
\* the block, and in the body of the function f
UndefinedIn(e) ==
    { ExpressionStmt(e),
      PrintStmt(e),
      VarDecl("r", e),
      BlockStmt(<< VarDecl("b", Num(1)), ExpressionStmt(e) >>),
      BlockStmt(<< BlockStmt(<< VarDecl("r", e) >>) >>),
      ExpressionStmt(CallOf(V("f"), << >>)) }

\* var a = 0; fun f() { e; } <statement>
UndefinedNameCases ==
    { << VarDecl("a", Num(0)), Fun("f", << >>, << ExpressionStmt(e) >>), stmt >> :
      e \in OnUndefined, stmt \in UNION { UndefinedIn(x) : x \in OnUndefined } }

\* var a = 0; { var b = 1; { var r = (a = (b = 5)); print r; } print b; } print a;
AssignValueProgram ==
    << VarDecl("a", Num(0)),
       BlockStmt(<< VarDecl("b", Num(1)),
                    BlockStmt(<< VarDecl("r", Set("a", Set("b", Num(5)))),
                                 PrintStmt(V("r")) >>),
                    PrintStmt(V("b")) >>),
       PrintStmt(V("a")) >>

\* var x;
VarNil(x) == VarStmt(Ident(x, 1), Null)

\* programs of `var` statements, each with the output it is to have and
\* with what the global scope is to bind beside `clock` at its end:
\*   var x; print x;
\*   var a = 1; var a = "s"; print a; var a; print a;
\*   var a = 1; { var a = a; print a; var a = 7; print a; var a; print a; }
\*   var a = 1; { var b; print b; var a = (a = 5); print a; }
VarCases ==
    { [prog |-> << VarNil("x"), PrintStmt(V("x")) >>,
       out |-> << "nil" >>,
       bound |-> [n \in {"x"} |-> Nil]],
      [prog |-> << VarDecl("a", Num(1)), VarDecl("a", Str("s")), PrintStmt(V("a")),
                   VarNil("a"), PrintStmt(V("a")) >>,
       out |-> << "s", "nil" >>,
       bound |-> [n \in {"a"} |-> Nil]],
      [prog |-> << VarDecl("a", Num(1)),
                   BlockStmt(<< VarDecl("a", V("a")), PrintStmt(V("a")),
                                VarDecl("a", Num(7)), PrintStmt(V("a")),
                                VarNil("a"), PrintStmt(V("a")) >>) >>,
       out |-> << "1", "7", "nil" >>,
       bound |-> [n \in {"a"} |-> Number(1)]],
      [prog |-> << VarDecl("a", Num(1)),
                   BlockStmt(<< VarNil("b"), PrintStmt(V("b")),
                                VarDecl("a", Set("a", Num(5))), PrintStmt(V("a")) >>) >>,
       out |-> << "nil", "5" >>,
       bound |-> [n \in {"a"} |-> Number(5)]] }

\* the statements of which the freely composed programs are made
StmtPool ==
    { VarDecl("a", Num(1)),
      VarDecl("b", NilLit),
      PrintStmt(V("a")),
      ExpressionStmt(Set("a", Bin(V("a"), "PLUS", Num(1)))),
      BlockStmt(<< >>),
      BlockStmt(<<VarDecl("a", Num(2)), PrintStmt(V("a"))>>),
      BlockStmt(<<Ret(V("a"))>>),
      IfStmt(V("a"), BlockStmt(<<VarDecl("a", Str("s"))>>), None),
      IfStmt(Bool(FALSE), PrintStmt(Num(0)), Some(Ret(Num(1)))),
      WhileStmt(Bin(V("a"), "LESS", Num(3)),
                ExpressionStmt(Set("a", Bin(V("a"), "PLUS", Num(1))))),
      Fun("f", <<"x">>, <<PrintStmt(V("x")), Ret(V("a"))>>),
      ExpressionStmt(CallOf(V("f"), <<Num(7)>>)),
      PrintStmt(CallOf(V("clock"), << >>)),
      Ret(Num(1)) }

FreePrograms == UNION { [1..n -> StmtPool] : n \in 0..MaxStmts }

Scenarios ==
    { ShadowProgram }
    \cup { c.prog : c \in ReturnInLoopCases }
    \cup { c.prog : c \in RecursionCases }
    \cup { c.prog : c \in ClosureCases }
    \cup { c.prog : c \in LateDeclarationCases }
    \cup { c.prog : c \in LogicalCases }
    \cup { c.prog : c \in BinaryCases }
    \cup { CalleeReturnProgram }
    \cup SignedPrograms
    \cup { ElapsedProgram }
    \cup { c.prog : c \in ArityCases }
    \cup NotCallableCases
    \cup ExpressionCases
    \cup { c.prog : c \in ErrorCases }
    \cup UndefinedNameCases
    \cup { AssignValueProgram }
    \cup { c.prog : c \in VarCases }

Programs == FreePrograms \cup Scenarios

(***************************************************************************)
(* The driver: `evaluate(filename, flag)`.                                 *)
(***************************************************************************)
\* Evaluate::new and Evaluate::define_globals
InitialEnvs == << define_in(Environment_new, "clock", Clock) >>

\* what SystemTime::now() may give at the calls of `clock` of one statement
Readings == [1..MaxReads -> (0 - 1)..MaxClock]

St(readings) ==
    [envs |-> envs, globals |-> globals, environment |-> environment,
     out |-> out, err |-> err, now |-> now, readings |-> readings,
     fuel |-> MaxFuel]

StatusOf(r) ==
    CASE r.kind = "Exit" -> "exit70"
      [] r.kind = "Panic" -> "panic"
      [] r.kind \in {"Diverge", "Unread"} -> "diverged"
      [] r.kind = "Unmodelled" -> "unmodelled"
      [] OTHER -> "running"

ParserIdle ==
    /\ ptokens = << >>
    /\ pcurrent = 0
    /\ phad_error = FALSE
    /\ perror = 65
    /\ pstatements = << >>
    /\ pstatus = "done"

\* no operation on an Environment
NoOperation == [kind |-> "none"]

EnvironmentIdle == eop = NoOperation

LexerIdle ==
    /\ source = << >>
    /\ lchars = << >>
    /\ ltokens = << >>
    /\ lhad_error = FALSE
    /\ lline = 0
    /\ current_line = 1
    /\ lstatus = "done"

\* the file names that the drivers are given
Filenames == {"test.lox", "missing.lox"}

\* `evaluate` is entered: `prog` is what the file's contents parse to, and
\* no Evaluate has been made yet
Init ==
    /\ prog \in Programs
    /\ pc = 1
    /\ flag \in BOOLEAN
    /\ now = 0
    /\ envs = << >>
    /\ globals = 0
    /\ environment = 0
    /\ out = << >>
    /\ err = << >>
    /\ status = "start"
    /\ ParserIdle
    /\ LexerIdle
    /\ EnvironmentIdle

\* fs::read_to_string fails: a line on stderr and `evaluate` returns; a file
\* that cannot be read has no statements
FailedToRead ==
    /\ status = "start"
    /\ prog = << >>
    /\ \E filename \in Filenames : err' = << "Failed to read file " \o filename >>
    /\ status' = "exit0"
    /\ UNCHANGED <<prog, pc, flag, now, envs, globals, environment, out>>
    /\ UNCHANGED parseVars
    /\ UNCHANGED lexVars
    /\ UNCHANGED eop

\* the file has no character: `EOF  null` on stdout and `evaluate` returns
EmptyContents ==
    /\ status = "start"
    /\ prog = << >>
    /\ out' = << "EOF  null" >>
    /\ status' = "exit0"
    /\ UNCHANGED <<prog, pc, flag, now, envs, globals, environment, err>>
    /\ UNCHANGED parseVars
    /\ UNCHANGED lexVars
    /\ UNCHANGED eop

\* the file is read and not empty: Parser::new, Evaluate::new,
\* define_globals and Parser::parse, whose statements are `prog`
ParseFile ==
    /\ status = "start"
    /\ envs' = InitialEnvs
    /\ globals' = 1
    /\ environment' = 1
    /\ status' = "running"
    /\ UNCHANGED <<prog, pc, flag, now, out, err>>
    /\ UNCHANGED parseVars
    /\ UNCHANGED lexVars
    /\ UNCHANGED eop

\* whether the statement at pc reads the clock: with no reading to take it
\* stops at its first call of `clock`
reads_clock == execute(prog[pc], flag, St(<< >>)).kind = "Unread"

\* one turn of `for stmt in statement { evaluate.execute(stmt, flag); }`
Step(kind) ==
    /\ status = "running"
    /\ pc <= Len(prog)
    /\ prog[pc].kind = kind
    /\ \E readings \in (IF reads_clock THEN Readings ELSE {<< >>}) :
           LET r == execute(prog[pc], flag, St(readings))
           IN  /\ envs' = r.st.envs
               /\ globals' = r.st.globals
               /\ environment' = r.st.environment
               /\ out' = r.st.out
               /\ err' = r.st.err
               /\ now' = r.st.now
               /\ status' = StatusOf(r)
    /\ pc' = pc + 1
    /\ UNCHANGED <<prog, flag>>
    /\ UNCHANGED parseVars
    /\ UNCHANGED lexVars
    /\ UNCHANGED eop

ExecuteExpression == Step("Expression")
ExecutePrint == Step("Print")
ExecuteBlock == Step("Block")
ExecuteVar == Step("Var")
ExecuteIf == Step("If")
ExecuteWhile == Step("While")
ExecuteFunction == Step("Function")
ExecuteReturn == Step("Return")

\* the loop is over and `evaluate` returns
Finish ==
    /\ status = "running"
    /\ pc > Len(prog)
    /\ status' = "exit0"
    /\ UNCHANGED <<prog, pc, flag, now, envs, globals, environment, out, err>>
    /\ UNCHANGED parseVars
    /\ UNCHANGED lexVars
    /\ UNCHANGED eop

Next ==
    \/ FailedToRead
    \/ EmptyContents
    \/ ParseFile
    \/ ExecuteExpression
    \/ ExecutePrint
    \/ ExecuteBlock
    \/ ExecuteVar
    \/ ExecuteIf
    \/ ExecuteWhile
    \/ ExecuteFunction
    \/ ExecuteReturn
    \/ Finish

Spec == Init /\ [][Next]_vars

(***************************************************************************)
(* The parser's driver: Parser::parse over a token stream.                 *)
(***************************************************************************)
\* a token of the streams, on line 1
Tok(token_type) ==
    CASE token_type = "NUMBER" -> Token("NUMBER", "1", 1, LitNumber(1))
      [] token_type = "IDENTIFIER" -> Token("IDENTIFIER", "a", 1, LitNone)
      [] token_type = "RETURN" -> Token("RETURN", "return", 1, LitNone)
      [] token_type = "EOF" -> Token("EOF", "", 1, LitNone)
      [] OTHER -> Token(token_type, OpLexeme(token_type), 1, LitNone)

TokenPool ==
    {"SEMICOLON", "NUMBER", "IDENTIFIER", "PLUS", "LEFT_PAREN", "RIGHT_PAREN",
     "EQUAL", "COMMA", "RETURN"}

\* the bodies of at most MaxTokens tokens with at most MaxNesting `(`
Bodies ==
    { body \in UNION { [1..k -> TokenPool] : k \in 0..MaxTokens } :
        Cardinality({ i \in DOMAIN body : body[i] = "LEFT_PAREN" }) <= MaxNesting }

\* `return`, a body, EOF
ReturnStreams ==
    { << Tok("RETURN") >> \o [i \in 1..Len(body) |-> Tok(body[i])] \o << Tok("EOF") >> :
        body \in Bodies }

\* the token of a word of a program: a number, an identifier, or the name of
\* the type of a token without payload
Word(w) ==
    CASE is_digit(CharAt(w, 1)) -> Token("NUMBER", w, 1, LitF64(parse_f64(w).v))
      [] w \in {"a", "b", "c", "f", "x"} -> Ident(w, 1)
      [] OTHER -> Op(w, 1)

\* the tokens of a program on one line, EOF at their end
Stream(words) == [i \in 1..Len(words) |-> Word(words[i])] \o << Tok("EOF") >>

\* `1 = 2` in each place of an expression
InvalidTargetWords ==
    [expression |-> << "1", "EQUAL", "2", "SEMICOLON" >>,
     print |-> << "PRINT", "1", "EQUAL", "2", "SEMICOLON" >>,
     var |-> << "VAR", "x", "EQUAL", "1", "EQUAL", "2", "SEMICOLON" >>,
     if |-> << "IF", "LEFT_PAREN", "1", "EQUAL", "2", "RIGHT_PAREN",
               "PRINT", "1", "SEMICOLON" >>,
     while |-> << "WHILE", "LEFT_PAREN", "1", "EQUAL", "2", "RIGHT_PAREN",
                  "PRINT", "1", "SEMICOLON" >>,
     for |-> << "FOR", "LEFT_PAREN", "SEMICOLON", "1", "EQUAL", "2", "SEMICOLON",
                "RIGHT_PAREN", "PRINT", "1", "SEMICOLON" >>,
     return |-> << "RETURN", "1", "EQUAL", "2", "SEMICOLON" >>,
     argument |-> << "f", "LEFT_PAREN", "1", "EQUAL", "2", "RIGHT_PAREN",
                     "SEMICOLON" >>]

InvalidTargetStreams == { Stream(InvalidTargetWords[c]) : c \in DOMAIN InvalidTargetWords }

\* a syntax error in a block, in the body of a function, and in the else
\* branch of an if
NestedErrorWords ==
    [block |-> << "LEFT_BRACE", "RETURN", "1", "EQUAL", "2", "SEMICOLON",
                  "RIGHT_BRACE", "PRINT", "1", "SEMICOLON" >>,
     function |-> << "FUN", "f", "LEFT_PAREN", "RIGHT_PAREN", "LEFT_BRACE",
                     "IF", "LEFT_PAREN", "1", "EQUAL", "2", "RIGHT_PAREN",
                     "PRINT", "1", "SEMICOLON", "RIGHT_BRACE",
                     "PRINT", "2", "SEMICOLON" >>,
     else |-> << "IF", "LEFT_PAREN", "1", "RIGHT_PAREN", "PRINT", "1", "SEMICOLON",
                 "ELSE", "RETURN", "1", "EQUAL", "2" >>]

NestedErrorStreams == { Stream(NestedErrorWords[c]) : c \in DOMAIN NestedErrorWords }

\* the binary and the logical operators
Operators ==
    {"STAR", "SLASH", "PLUS", "MINUS", "GREATER", "GREATER_EQUAL", "LESS",
     "LESS_EQUAL", "EQUAL_EQUAL", "BANG_EQUAL", "AND", "OR"}

\* `a op1 b op2 c ;`
PrecedenceStream(op1, op2) == Stream(<< "a", op1, "b", op2, "c", "SEMICOLON" >>)

PrecedenceStreams == { PrecedenceStream(op1, op2) : op1, op2 \in Operators }

\* `a = b = c ;`, `a = b or c ;`, `1 + 2 * 3 ;`
AssignmentStream == Stream(<< "a", "EQUAL", "b", "EQUAL", "c", "SEMICOLON" >>)

AssignmentOrStream == Stream(<< "a", "EQUAL", "b", "OR", "c", "SEMICOLON" >>)

NumberStream == Stream(<< "1", "PLUS", "2", "STAR", "3", "SEMICOLON" >>)

\* `print 10 + 1.5 ;`: numbers of several digits and with a fraction
DecimalStream == Stream(<< "PRINT", "10", "PLUS", "1.5", "SEMICOLON" >>)

\* programs without a syntax error
WellFormedStreams ==
    { Stream(<< "FOR", "LEFT_PAREN", "VAR", "x", "EQUAL", "1", "SEMICOLON",
                "x", "LESS", "3", "SEMICOLON", "x", "EQUAL", "x", "PLUS", "1",
                "RIGHT_PAREN", "PRINT", "x", "SEMICOLON" >>),
      Stream(<< "FUN", "f", "LEFT_PAREN", "a", "COMMA", "b", "RIGHT_PAREN",
                "LEFT_BRACE", "RETURN", "a", "PLUS", "b", "SEMICOLON",
                "RIGHT_BRACE", "PRINT", "f", "LEFT_PAREN", "1", "COMMA", "2",
                "RIGHT_PAREN", "SEMICOLON" >>),
      Stream(<< "VAR", "x", "SEMICOLON", "LEFT_BRACE", "VAR", "x", "EQUAL", "1",
                "SEMICOLON", "RIGHT_BRACE", "WHILE", "LEFT_PAREN", "x",
                "RIGHT_PAREN", "x", "EQUAL", "x", "MINUS", "1", "SEMICOLON" >>),
      Stream(<< "IF", "LEFT_PAREN", "x", "RIGHT_PAREN", "PRINT", "1", "SEMICOLON",
                "ELSE", "PRINT", "2", "SEMICOLON" >>) }

\* `for (<init> <cond> ; <incr>) print a ;` with each clause present or
\* missing: the initializer is none, a declaration or an expression
ForClauses ==
    [initializer : {"none", "var", "expression"}, condition : BOOLEAN,
     increment : BOOLEAN]

ForWords(c) ==
    << "FOR", "LEFT_PAREN" >>
        \o (CASE c.initializer = "none" -> << "SEMICOLON" >>
              [] c.initializer = "var" -> << "VAR", "a", "EQUAL", "1", "SEMICOLON" >>
              [] OTHER -> << "a", "EQUAL", "1", "SEMICOLON" >>)
        \o (IF c.condition THEN << "a", "LESS", "3" >> ELSE << >>)
        \o << "SEMICOLON" >>
        \o (IF c.increment THEN << "a", "EQUAL", "a", "PLUS", "1" >> ELSE << >>)
        \o << "RIGHT_PAREN", "PRINT", "a", "SEMICOLON" >>

ForStreams == { Stream(ForWords(c)) : c \in ForClauses }

\* calls, closed and not: `f ( 1 ) ;`, `f ( ) ( a , 2 ) ;`, `f ( 1 ;`,
\* `print f ( a , 2 ;`, `f ( ) ( 1 ;`, `var x = f ( ;`
CallWords ==
    { << "f", "LEFT_PAREN", "1", "RIGHT_PAREN", "SEMICOLON" >>,
      << "f", "LEFT_PAREN", "RIGHT_PAREN", "LEFT_PAREN", "a", "COMMA", "2",
         "RIGHT_PAREN", "SEMICOLON" >>,
      << "f", "LEFT_PAREN", "1", "SEMICOLON" >>,
      << "PRINT", "f", "LEFT_PAREN", "a", "COMMA", "2", "SEMICOLON" >>,
      << "f", "LEFT_PAREN", "RIGHT_PAREN", "LEFT_PAREN", "1", "SEMICOLON" >>,
      << "VAR", "x", "EQUAL", "f", "LEFT_PAREN", "SEMICOLON" >> }

CallStreams == { Stream(w) : w \in CallWords }

\* `) print 1 ;`: a statement after a syntax error
AfterErrorStream == Stream(<< "RIGHT_PAREN", "PRINT", "1", "SEMICOLON" >>)

\* the tokens of a file without a token: the EOF alone
EmptyStream == Stream(<< >>)

\* programs as run_parser prints them, an expression with no `;` after it:
\* `1 + 2 * 3`, `( a )`, `- 0`, `! true`, `a = b or nil`, `f ( 1 )`,
\* `print 1 + 2 ; print a ;`, `"s"`
AstWords ==
    { << "1", "PLUS", "2", "STAR", "3" >>,
      << "LEFT_PAREN", "a", "RIGHT_PAREN" >>,
      << "MINUS", "0" >>,
      << "BANG", "TRUE" >>,
      << "a", "EQUAL", "b", "OR", "NIL" >>,
      << "f", "LEFT_PAREN", "1", "RIGHT_PAREN" >>,
      << "PRINT", "1", "PLUS", "2", "SEMICOLON", "PRINT", "a", "SEMICOLON" >> }

StringStream == << Token("STRING", "\"s\"", 1, LitString("s")), Tok("EOF") >>

AstStreams == { Stream(w) : w \in AstWords } \cup {StringStream}

TokenStreams ==
    {EmptyStream} \cup AstStreams \cup ReturnStreams \cup InvalidTargetStreams \cup NestedErrorStreams
        \cup ForStreams \cup {AfterErrorStream} \cup CallStreams
        \cup PrecedenceStreams
        \cup {AssignmentStream, AssignmentOrStream, NumberStream, DecimalStream}
        \cup WellFormedStreams

\* the Parser the variables hold
P ==
    [tokens |-> ptokens, current |-> pcurrent, had_error |-> phad_error,
     evaluate |-> flag, error |-> perror, log |-> err]

\* `{:?}` of an f64 that is an integer
Debug(f) ==
    IF f.n = 0 /\ f.negative THEN "-0.0" ELSE IntStr(f.n) \o ".0"

\* Expr::ast_print
RECURSIVE ast_print(_)
ast_print(e) ==
    CASE e.kind \in {"Binary", "Logical"} ->
             "(" \o e.operator.lexeme \o " " \o ast_print(e.left) \o " "
                 \o ast_print(e.right) \o ")"
      [] e.kind = "Grouping" -> "(group " \o ast_print(e.expression) \o ")"
      [] e.kind = "Literal" ->
             CASE e.value.lit = "String" -> e.value.s
               [] e.value.lit = "Number" -> Debug(e.value)
               [] e.value.lit = "Boolean" -> IF e.value.b THEN "true" ELSE "false"
               [] e.value.lit = "None" -> "nil"
               [] OTHER -> "Unknown Literal"
      [] e.kind = "Unary" -> "(" \o e.operator.lexeme \o " " \o ast_print(e.right) \o ")"
      [] e.kind = "Variable" -> e.name.lexeme
      [] e.kind = "Assign" -> "(= " \o e.name.lexeme \o " " \o ast_print(e.value) \o ")"
      [] e.kind = "Null" -> "null"
      [] OTHER -> ""

\* whether ast_print writes no number but integers of the model
RECURSIVE printable(_)
printable(e) ==
    CASE e.kind \in {"Binary", "Logical"} -> printable(e.left) /\ printable(e.right)
      [] e.kind = "Grouping" -> printable(e.expression)
      [] e.kind = "Literal" -> e.value.lit = "Number" => e.value.exact
      [] e.kind = "Unary" -> printable(e.right)
      [] e.kind = "Assign" -> printable(e.value)
      [] OTHER -> TRUE

is_printed(stmt) == stmt.kind \in {"Expression", "Print"}

\* the statements that the loop of run_parser prints
printed(statements) == SelectSeq(statements, is_printed)

\* the statements printed before the first whose text the model does not hold
before_unprintable(statements) ==
    LET bad == { i \in 1..Len(statements) : ~printable(statements[i].expr) }
    IN  IF bad = {} THEN statements
        ELSE SubSeq(statements, 1, (CHOOSE i \in bad : \A j \in bad : i <= j) - 1)

ast_lines(statements) == [i \in 1..Len(statements) |-> ast_print(statements[i].expr)]

\* run_parser or evaluate is entered, the file not yet read: `ptokens` is
\* what its contents lex to
ParserInit ==
    /\ ptokens \in TokenStreams
    /\ pcurrent = 0
    /\ phad_error = FALSE
    /\ perror = 65
    /\ pstatements = << >>
    /\ pstatus = "start"
    /\ prog = << >>
    /\ pc = 1
    /\ flag \in BOOLEAN
    /\ now = 0
    /\ envs = InitialEnvs
    /\ globals = 1
    /\ environment = 1
    /\ out = << >>
    /\ err = << >>
    /\ status = "idle"
    /\ LexerIdle
    /\ EnvironmentIdle

\* fs::read_to_string fails in run_parser: a line on stderr and it returns
ParserFailedToRead ==
    /\ pstatus = "start"
    /\ ptokens = EmptyStream
    /\ \E filename \in Filenames : err' = << "Failed to read file " \o filename >>
    /\ pstatus' = "returned"
    /\ UNCHANGED <<ptokens, pcurrent, phad_error, perror, pstatements>>
    /\ UNCHANGED <<prog, pc, flag, now, envs, globals, environment, out, status>>
    /\ UNCHANGED lexVars
    /\ UNCHANGED eop

\* the file has no character: `EOF  null` on stdout and run_parser returns
ParserEmptyFile ==
    /\ pstatus = "start"
    /\ ptokens = EmptyStream
    /\ out' = << "EOF  null" >>
    /\ pstatus' = "returned"
    /\ UNCHANGED <<ptokens, pcurrent, phad_error, perror, pstatements>>
    /\ UNCHANGED <<prog, pc, flag, now, envs, globals, environment, err, status>>
    /\ UNCHANGED lexVars
    /\ UNCHANGED eop

\* Parser::new(return_tokens(&file_contents), flag)
NewParser ==
    /\ pstatus = "start"
    /\ pstatus' = "parsing"
    /\ UNCHANGED <<ptokens, pcurrent, phad_error, perror, pstatements>>
    /\ UNCHANGED evalVars
    /\ UNCHANGED lexVars
    /\ UNCHANGED eop

\* the loop of run_parser, whose Parser does not evaluate, over the
\* statements that Parser::parse returned: a line for each expression
\* statement and each print statement
PrintStatements ==
    /\ pstatus = "done"
    /\ ~flag
    /\ LET statements == printed(pstatements)
           lines == before_unprintable(statements)
       IN  /\ out' = out \o ast_lines(lines)
           /\ pstatus' = IF Len(lines) = Len(statements) THEN "returned"
                         ELSE "unmodelled"
    /\ UNCHANGED <<ptokens, pcurrent, phad_error, perror, pstatements>>
    /\ UNCHANGED <<prog, pc, flag, now, envs, globals, environment, err, status>>
    /\ UNCHANGED lexVars
    /\ UNCHANGED eop

\* one turn of the loop of Parser::parse, the declaration begun by a token
\* of one of the types
Declare(types) ==
    /\ pstatus = "parsing"
    /\ ~is_at_end(P)
    /\ peek(P).v.token_type \in types
    /\ LET t == parse_turn(declaration(P), pstatements)
       IN  /\ pcurrent' = t.p.current
           /\ phad_error' = t.p.had_error
           /\ perror' = t.p.error
           /\ err' = t.p.log
           /\ pstatements' = t.statements
           /\ pstatus' = t.status
    /\ UNCHANGED <<ptokens, prog, pc, flag, now, envs, globals, environment, out,
                   status>>
    /\ UNCHANGED lexVars
    /\ UNCHANGED eop

ParseFunction == Declare({"FUN"})

ParseVar == Declare({"VAR"})

ParseIf == Declare({"IF"})

ParsePrint == Declare({"PRINT"})

ParseWhile == Declare({"WHILE"})

ParseReturn == Declare({"RETURN"})

ParseFor == Declare({"FOR"})

ParseBlock == Declare({"LEFT_BRACE"})

ParseExpression ==
    Declare({"SEMICOLON", "NUMBER", "IDENTIFIER", "STRING", "TRUE", "FALSE", "NIL",
             "BANG", "LEFT_PAREN", "RIGHT_PAREN", "EQUAL", "COMMA", "ELSE",
             "RIGHT_BRACE"} \cup Operators)

\* a variant of the end of Parser::parse that returns the statements after
\* an error too
FinishParse_returning ==
    /\ pstatus = "parsing"
    /\ is_at_end(P)
    /\ pstatus' = "done"
    /\ UNCHANGED <<ptokens, pcurrent, phad_error, perror, pstatements>>
    /\ UNCHANGED evalVars
    /\ UNCHANGED lexVars
    /\ UNCHANGED eop

\* the loop is over: exit(self.error) after an error, the statements otherwise
FinishParse ==
    /\ pstatus = "parsing"
    /\ is_at_end(P)
    /\ pstatus' = IF phad_error THEN "exit" ELSE "done"
    /\ UNCHANGED <<ptokens, pcurrent, phad_error, perror, pstatements>>
    /\ UNCHANGED evalVars
    /\ UNCHANGED lexVars
    /\ UNCHANGED eop

ParserNext ==
    \/ ParserFailedToRead
    \/ ParserEmptyFile
    \/ NewParser
    \/ ParseFunction
    \/ ParseVar
    \/ ParseIf
    \/ ParsePrint
    \/ ParseWhile
    \/ ParseReturn
    \/ ParseFor
    \/ ParseBlock
    \/ ParseExpression
    \/ FinishParse
    \/ PrintStatements

ParserSpec == ParserInit /\ [][ParserNext]_vars

(***************************************************************************)
(* `tokenize`: run_lexer over the contents of a file.  One step of the     *)
(* lexer is one turn of the loop of Lexer::lex, with every character that  *)
(* scan_token consumes in it.                                              *)
(***************************************************************************)
LexAlphabet == {"1", "0", ".", "@", "a", " ", "=", "/", "(", "\"", "\n"}

RECURSIVE CharsUpTo(_)
CharsUpTo(n) ==
    IF n = 0 THEN {<< >>}
    ELSE CharsUpTo(n - 1)
            \cup {Append(c, ch) : c \in {d \in CharsUpTo(n - 1) : Len(d) = n - 1},
                                  ch \in LexAlphabet}

\* numbers with a `.` that no digit follows, or with two `.`
DottedSources ==
    {<< "1", "." >>, << "1", ".", "2", ".", "3" >>, << "1", ".", "0", ".", "5" >>,
     << "1", ".", " ", "2" >>}

\* sources with a lexical error between valid tokens
ErrorSources ==
    {<< "(", "@", ")" >>, << "1", "@", "2", " ", "a" >>, << "(", "\n", "#", "\n", ")" >>,
     << "o", "r", "$", "\"", "a", "\"" >>, << "(", " ", "\"", "a", "\n", "b" >>,
     << "/", "/", "@", "\n", "@", "=", "=" >>, << "\"", "\n", "\"", "@", "(" >>}

\* tokens after a string literal of more than one line
MultiLineSources ==
    {<< "\"", "\n", "\"", "(" >>, << "(", "\n", "\"", "a", "\n", "\n", "\"", " ", "1", "\n", "a" >>}

Sources == CharsUpTo(MaxChars) \cup DottedSources \cup ErrorSources \cup MultiLineSources

\* the lexer and the locals of Lexer::lex in the state
L ==
    [l |-> [had_error |-> lhad_error, log |-> err], chars |-> lchars,
     line |-> lline, current_line |-> current_line, tokens |-> ltokens]

LexerInit ==
    /\ source \in Sources
    /\ lchars = source
    /\ ltokens = << >>
    /\ lhad_error = FALSE
    /\ lline = 0
    /\ current_line = 1
    /\ lstatus = "start"
    /\ prog = << >>
    /\ pc = 1
    /\ flag = FALSE
    /\ now = 0
    /\ envs = InitialEnvs
    /\ globals = 1
    /\ environment = 1
    /\ out = << >>
    /\ err = << >>
    /\ status = "idle"
    /\ ParserIdle
    /\ EnvironmentIdle

\* fs::read_to_string fails in run_lexer: a line on stderr, exit code 1
LexerFailedToRead ==
    /\ lstatus = "start"
    /\ source = << >>
    /\ \E filename \in Filenames : err' = << "Failed to read file " \o filename >>
    /\ status' = "exit1"
    /\ lstatus' = "done"
    /\ UNCHANGED <<source, lchars, ltokens, lhad_error, lline, current_line>>
    /\ UNCHANGED <<prog, pc, flag, now, envs, globals, environment, out>>
    /\ UNCHANGED parseVars
    /\ UNCHANGED eop

\* run_lexer on an empty file
EmptyFile ==
    /\ lstatus = "start"
    /\ source = << >>
    /\ out' = << "EOF  null" >>
    /\ status' = "exit0"
    /\ lstatus' = "done"
    /\ UNCHANGED <<source, lchars, ltokens, lhad_error, lline, current_line>>
    /\ UNCHANGED <<prog, pc, flag, now, envs, globals, environment, err>>
    /\ UNCHANGED parseVars
    /\ UNCHANGED eop

\* one turn of the loop of Lexer::lex
ScanToken ==
    /\ lstatus \in {"start", "lexing"}
    /\ lchars # << >>
    /\ LET s == lex_turn(L)
       IN  /\ lchars' = s.chars
           /\ ltokens' = s.tokens
           /\ lhad_error' = s.l.had_error
           /\ err' = s.l.log
           /\ lline' = s.line
           /\ current_line' = s.current_line
    /\ lstatus' = "lexing"
    /\ UNCHANGED <<source, prog, pc, flag, now, envs, globals, environment, out,
                   status>>
    /\ UNCHANGED parseVars
    /\ UNCHANGED eop

\* the end of Lexer::lex and the rest of run_lexer of main.rs, the
\* `tokenize` command: the Eof token, the lines of the tokens, the exit code
EndOfSource ==
    /\ lstatus = "lexing"
    /\ lchars = << >>
    /\ ltokens' = Append(ltokens, Eof(current_line))
    /\ out' = [i \in 1..(Len(ltokens) + 1) |->
                  token_line(Append(ltokens, Eof(current_line))[i])]
    /\ status' = IF lhad_error THEN "exit65" ELSE "exit0"
    /\ lstatus' = "done"
    /\ UNCHANGED <<source, lchars, lhad_error, lline, current_line>>
    /\ UNCHANGED <<prog, pc, flag, now, envs, globals, environment, err>>
    /\ UNCHANGED parseVars
    /\ UNCHANGED eop

\* the end of Lexer::lex and the rest of run_lexer of lexer.rs, which
\* differs from that of main.rs in the line of an IDENTIFIER
LexerEndOfSource ==
    /\ lstatus = "lexing"
    /\ lchars = << >>
    /\ ltokens' = Append(ltokens, Eof(current_line))
    /\ out' = [i \in 1..(Len(ltokens) + 1) |->
                  lexer_token_line(Append(ltokens, Eof(current_line))[i])]
    /\ status' = IF lhad_error THEN "exit65" ELSE "exit0"
    /\ lstatus' = "done"
    /\ UNCHANGED <<source, lchars, lhad_error, lline, current_line>>
    /\ UNCHANGED <<prog, pc, flag, now, envs, globals, environment, err>>
    /\ UNCHANGED parseVars
    /\ UNCHANGED eop

LexerNext ==
    \/ LexerFailedToRead
    \/ EmptyFile
    \/ ScanToken
    \/ EndOfSource
    \/ LexerEndOfSource

LexerSpec == LexerInit /\ [][LexerNext]_vars

(***************************************************************************)
(* Environment on its own: one of define, assign and get, invoked on an    *)
(* environment of a heap of environments that `enclosing` makes a tree.    *)
(***************************************************************************)
\* the most environments of a heap
MaxEnvs == 3

BoundNames == {"a", "b"}

\* the maps that bind some of the names, each to 1
Bindings == { [n \in d |-> Number(1)] : d \in SUBSET BoundNames }

\* the heaps of n environments: the first is Environment::new, each other
\* one encloses an earlier one
RECURSIVE HeapsOf(_)
HeapsOf(n) ==
    IF n = 1
    THEN { << [enclosing |-> None, values |-> b] >> : b \in Bindings }
    ELSE { Append(h, [enclosing |-> Some(e), values |-> b]) :
           h \in HeapsOf(n - 1), e \in 1..(n - 1), b \in Bindings }

Heaps == UNION { HeapsOf(n) : n \in 1..MaxEnvs }

EnvironmentInit ==
    /\ envs \in Heaps
    /\ environment \in 1..Len(envs)
    /\ globals = 1
    /\ eop = NoOperation
    /\ prog = << >>
    /\ pc = 1
    /\ flag = FALSE
    /\ now = 0
    /\ out = << >>
    /\ err = << >>
    /\ status = "idle"
    /\ ParserIdle
    /\ LexerIdle

\* environment.define(name, value)
Define ==
    /\ eop = NoOperation
    /\ \E name \in BoundNames \cup {"c"} :
           /\ envs' = define(envs, environment, name, Number(2))
           /\ eop' = [kind |-> "define", name |-> name, value |-> Number(2),
                      before |-> envs]
    /\ UNCHANGED <<prog, pc, flag, now, globals, environment, out, err, status>>
    /\ UNCHANGED parseVars
    /\ UNCHANGED lexVars

\* environment.assign(name, value)
AssignTo ==
    /\ eop = NoOperation
    /\ \E name \in BoundNames \cup {"c"} :
           LET r == assign(envs, environment, Ident(name, 1), Number(2))
           IN  /\ envs' = IF r.ok THEN r.heap ELSE envs
               /\ eop' = [kind |-> "assign", name |-> name, value |-> Number(2),
                          before |-> envs, ok |-> r.ok]
    /\ UNCHANGED <<prog, pc, flag, now, globals, environment, out, err, status>>
    /\ UNCHANGED parseVars
    /\ UNCHANGED lexVars

\* environment.get(name)
GetFrom ==
    /\ eop = NoOperation
    /\ \E name \in BoundNames \cup {"c"} :
           LET r == get(envs, environment, Ident(name, 1))
           IN  eop' = [kind |-> "get", name |-> name, before |-> envs, ok |-> r.ok,
                       value |-> IF r.ok THEN r.value ELSE Nil]
    /\ UNCHANGED <<prog, pc, flag, now, envs, globals, environment, out, err,
                   status>>
    /\ UNCHANGED parseVars
    /\ UNCHANGED lexVars

EnvironmentNext ==
    \/ Define
    \/ AssignTo
    \/ GetFrom

EnvironmentSpec == EnvironmentInit /\ [][EnvironmentNext]_vars

(***************************************************************************)
(* The claims.                                                             *)
(***************************************************************************)
Names == {"a", "b", "f", "x", "clock"}

\* the statement the driver executes in this step, if it executes one
Executing(kinds) ==
    /\ status = "running"
    /\ pc <= Len(prog)
    /\ prog[pc].kind \in kinds
    /\ pc' = pc + 1

\* the program has run to its end (and the process has not ended before)
Completed == pc > Len(prog) /\ status \in {"running", "exit0"}

\* the process is over, however it ended
Ended == status \notin {"start", "running"}

\* an Evaluate has been made: `evaluate` is past its reading of the file
Constructed == envs # << >>

\* C1: when a Block statement has been executed and the process goes on
\* (after normal completion as after a return unwinding through the block),
\* the current environment is again the one that was current before the block.
C1_BlockRestoresEnvironment ==
    [][(Executing({"Block"}) /\ status' = "running") => environment' = environment]_vars

\* C2: a binding made in a block shadows only inside the block: between two
\* top-level statements every name reads as the global scope binds it, and
\* `var a = 1; { var a = 2; print a; } print a;` prints 2 then 1.
C2_ShadowingEndsWithBlock ==
    /\ (Constructed /\ status \in {"running", "exit0"}) =>
           \A x \in Names :
               get(envs, environment, Ident(x, 1)) = get(envs, globals, Ident(x, 1))
    /\ (prog = ShadowProgram /\ ~flag /\ Completed) => out = <<"2", "1">>

\* C3: a `return` in the body of a loop of a function ends the loop and the
\* call at once: nothing of the loop runs after it and the call yields the
\* returned value.
C3_ReturnEndsLoopAndCall ==
    \A c \in ReturnInLoopCases :
        (prog = c.prog /\ ~flag /\ (pc > Len(prog) \/ Ended)) =>
            (status \in {"running", "exit0"} /\ out = c.out)

\* C4: when a statement that can change the current environment only by
\* calling functions (an expression statement, a print, a var) has been
\* executed, the current environment is the one that was current before it.
C4_CallRestoresEnvironment ==
    [][(Executing({"Expression", "Print", "Var"}) /\ status' = "running")
          => environment' = environment]_vars

\* C5: every invocation reads its own parameters, also after a nested call
\* of the same function has returned: f(k) prints the k-th Fibonacci number,
\* and d(k) counts 0, 1, .., k.
C5_InvocationOwnsParameters ==
    \A c \in RecursionCases :
        (prog = c.prog /\ ~flag /\ (pc > Len(prog) \/ Ended)) =>
            (status \in {"running", "exit0"} /\ out = c.out)

\* C6: a bare `return;` is accepted by the parser: the statement parsed from
\* `return` `;` is a Return whose value is absent, and parsing goes on.
C6_BareReturnAccepted ==
    (Len(ptokens) >= 2 /\ ptokens[2].token_type = "SEMICOLON" /\ pcurrent >= 2) =>
        /\ pstatus # "panic"
        /\ Len(pstatements) >= 1
        /\ pstatements[1] = ReturnStmt(ptokens[1], Null)

\* C7: a function captures the environment of its declaration by reference:
\* its calls read the current bindings of its free variables and see the
\* assignments of its earlier calls (the counter prints 1, 2, 3).
C7_ClosureCapturesByReference ==
    \A c \in ClosureCases :
        (prog = c.prog /\ ~flag /\ (pc > Len(prog) \/ Ended)) =>
            (status \in {"running", "exit0"} /\ out = c.out)

\* C8: a function declared in a block that reads a free variable `a` of an
\* outer scope observes a `var a` declared later in the same block.
C8_LaterDeclarationObserved ==
    \A c \in LateDeclarationCases :
        (prog = c.prog /\ ~flag /\ (pc > Len(prog) \/ Ended)) =>
            (status \in {"running", "exit0"} /\ out = c.out)

Falsy(v) == v = Nil \/ v = Boolean(FALSE)

LeftOperandDecides(c) == IF c.op = "AND" THEN Falsy(c.a) ELSE ~Falsy(c.a)

Bound(x) == envs[globals].values[x]

\* C9: in `a and b` the right operand is evaluated iff a is truthy, in
\* `a or b` iff a is not truthy, and the result is the deciding operand's
\* value unchanged; only nil and false are not truthy.
C9_LogicalShortCircuit ==
    \A c \in LogicalCases :
        (prog = c.prog /\ pc = 3) =>
            /\ status \in {"running", "exit0"}
            /\ Bound("r") = (IF LeftOperandDecides(c) THEN c.a ELSE c.b)
            /\ Bound("m") = (IF LeftOperandDecides(c) THEN String("unset") ELSE c.b)

\* `0 and "x"`: 0 is truthy, the right operand is evaluated and is the result
C9_Witness ==
    /\ prog = LogicalProgram(Num(0), "AND", Str("x"))
    /\ pc = 3
    /\ Bound("r") = String("x")
    /\ Bound("m") = String("x")

\* C10: a call with M arguments on a callable of arity N ends the run with
\* `Expected N arguments but got M.` iff N # M, and then nothing of the body
\* has run and no environment has been made; when N = M the callable is
\* invoked and the parameters are bound to the argument values in order
\* (`clock`, once invoked, returns the seconds it read, or panics when the
\* wall clock stands before 1970).
C10_ArityChecked ==
    \A c \in ArityCases :
        (prog = c.prog /\ pc = 3) =>
            IF c.n = c.m
            THEN /\ err = << >>
                 /\ status \in {"running", "exit0"} \/ (c.native /\ status = "panic")
                 /\ status # "panic" =>
                        out = [i \in 1..c.n |-> IntStr(10 + i)]
                              \o (IF flag
                                  THEN << IF c.native THEN IntStr(now) ELSE "nil" >>
                                  ELSE << >>)
            ELSE /\ status = "exit70"
                 /\ err = << "[line 2] Runtime Error: Expected " \o IntStr(c.n)
                             \o " arguments but got " \o IntStr(c.m) \o "." >>
                 /\ out = << >>
                 /\ Len(envs) = 1
                 /\ environment = globals

\* a call with one argument on a function of two parameters has ended the run
C10_Witness ==
    /\ prog = ArityProgram(2, 1)
    /\ pc = 3
    /\ status = "exit70"
    /\ err = <<"[line 2] Runtime Error: Expected 2 arguments but got 1.">>

\* C11: a call on a callee that is not callable ends the run with
\* `Can only call functions and classes.` at the line of the closing
\* parenthesis before any argument is evaluated: the assignment that is the
\* argument has not happened.
C11_CalleeCheckedBeforeArguments ==
    (prog \in NotCallableCases /\ pc = 3) =>
        /\ status = "exit70"
        /\ err = <<"[line 2] Runtime Error: Can only call functions and classes.">>
        /\ Bound("m") = String("unset")

\* C12: in run mode a program without a `print` statement writes nothing to
\* stdout, wherever its expression statements stand.
C12_OnlyPrintWrites ==
    (prog \in ExpressionCases /\ ~flag) => out = << >>

\* C13: the first runtime error ends the run with exit code 70 after its
\* report `[line L] Runtime Error: <message>`: whatever the place of the
\* failing expression, the statements up to it have run, the report is the
\* only line on stderr, and nothing that follows it is executed or printed.
C13_FirstRuntimeErrorEndsRun ==
    \A c \in ErrorCases :
        prog = c.prog =>
            /\ pc <= c.at => (status \in {"start", "running"} /\ err = << >>)
            /\ pc > c.at =>
                   /\ pc = c.at + 1
                   /\ status = "exit70"
                   /\ err = << c.report >>
                   /\ out = << "1" >>

\* the failure of `u = 1` in the body of a called function has ended the run
C13_Witness ==
    /\ prog = ErrorAt("function", Assign(Ident("u", 3), Num(1)))
    /\ pc = 4
    /\ status = "exit70"
    /\ err = << "[line 3] Runtime Error: Undefined variable 'u'." >>
    /\ out = << "1" >>

\* the environments that existed before the step bind what they bound, and
\* no environment binds `u`
BindingsUnchanged ==
    /\ Len(envs') >= Len(envs)
    /\ \A i \in 1..Len(envs) : envs'[i] = envs[i]
    /\ \A i \in 1..Len(envs') : "u" \notin DOMAIN envs'[i].values

\* C14: an assignment to, and a read of, a name that no scope of the chain
\* defines ends the run with `Undefined variable 'NAME'.` and changes no
\* binding of any environment; an assignment to a defined name writes the
\* nearest scope that defines it and evaluates to the assigned value.
C14_UndefinedNameIsAnError ==
    [][/\ (prog \in UndefinedNameCases /\ pc = 3 /\ pc' = 4) =>
              /\ status' = "exit70"
              /\ err' = << "[line 3] Runtime Error: Undefined variable 'u'." >>
              /\ out' = out
              /\ BindingsUnchanged
       /\ (prog = AssignValueProgram /\ pc = 2 /\ pc' = 3) =>
              /\ status' = "running"
              /\ out' = << "5", "5" >>
              /\ envs'[globals].values["a"] = Number(5)
              /\ DOMAIN envs'[globals].values = {"clock", "a"}]_vars

\* `u = 1` in a block has ended the run, and the block binds what it bound
C14_Witness ==
    /\ prog = << VarDecl("a", Num(0)),
                 Fun("f", << >>, << ExpressionStmt(Assign(Ident("u", 3), Num(1))) >>),
                 BlockStmt(<< VarDecl("b", Num(1)),
                              ExpressionStmt(Assign(Ident("u", 3), Num(1))) >>) >>
    /\ pc = 4
    /\ status = "exit70"
    /\ err = << "[line 3] Runtime Error: Undefined variable 'u'." >>
    /\ Len(envs) = 2
    /\ envs[2].values = [n \in {"b"} |-> Number(1)]

\* the value of an initializer that is absent, a literal or a variable, in
\* the environments before the statement
InitializerValue(expr) ==
    CASE expr.kind = "Null" -> Nil
      [] expr.kind = "Literal" ->
             CASE expr.value.lit = "Number" -> Number(expr.value.n)
               [] expr.value.lit = "String" -> String(expr.value.s)
               [] expr.value.lit = "Boolean" -> Boolean(expr.value.b)
               [] OTHER -> Nil
      [] OTHER -> get(envs, environment, expr.name).value

\* C15: `var x;` binds x to nil and `var x = e;` binds x, once e is
\* evaluated, in the current scope, the one that was current at the
\* statement, whatever expression e is: that scope is current after the
\* statement and it binds x.  When e is absent, a literal or a variable, x is
\* bound to the value e has before the binding and nowhere else: the names
\* the scope bound keep their values and every other scope is unchanged; in
\* a block `var a = a;` reads the outer a, and a second `var` of a name
\* replaces its value in that scope only.
C15_VarDefinesInCurrentScope ==
    [][/\ (Executing({"Var"}) /\ status' = "running") =>
              /\ environment' = environment
              /\ prog[pc].name.lexeme \in DOMAIN envs'[environment].values
       /\ (/\ Executing({"Var"})
           /\ prog[pc].expr.kind \in {"Null", "Literal", "Variable"}
           /\ status' = "running") =>
              /\ envs' = [envs EXCEPT ![environment].values =
                              [n \in (DOMAIN @) \cup {prog[pc].name.lexeme} |->
                                  IF n = prog[pc].name.lexeme
                                  THEN InitializerValue(prog[pc].expr)
                                  ELSE @[n]]]
       /\ \A c \in VarCases :
              (prog = c.prog /\ pc' > Len(prog)) =>
                  /\ status' \in {"running", "exit0"}
                  /\ out' = c.out
                  /\ envs'[globals].values =
                         [n \in {"clock"} \cup DOMAIN c.bound |->
                             IF n = "clock" THEN Clock ELSE c.bound[n]]]_vars

\* Parser::parse is over
Parsed == pstatus \in {"done", "exit"}

InvalidTarget == "Parse error at line 1: Invalid assignment target."

Reported(line) == \E i \in 1..Len(err) : err[i] = line

\* C16: for a left side of `=` that is no Variable the parser reports
\* `Invalid assignment target.` and records a syntax error, in every place
\* where an expression may appear.
C16_InvalidTargetReportedEverywhere ==
    (ptokens \in InvalidTargetStreams /\ Parsed) =>
        /\ Reported(InvalidTarget)
        /\ phad_error
        /\ pstatus = "exit"

\* C17: whenever the parser reported a syntax error, in a block or the body
\* of a function as elsewhere, the error flag is set and the process exits
\* with the code planned (65 or 70): no statement reaches the evaluator.
C17_ReportedErrorEndsParse ==
    (Parsed /\ err # << >>) =>
        /\ phad_error
        /\ pstatus = "exit"
        /\ perror \in {65, 70}

\* the rank of an operator in the grammar, the loosest first
Rank(op) ==
    CASE op = "OR" -> 1
      [] op = "AND" -> 2
      [] op \in {"EQUAL_EQUAL", "BANG_EQUAL"} -> 3
      [] op \in {"GREATER", "GREATER_EQUAL", "LESS", "LESS_EQUAL"} -> 4
      [] op \in {"PLUS", "MINUS"} -> 5
      [] op \in {"STAR", "SLASH"} -> 6

\* the node of an operator over two operands
Tree(left, op, right) ==
    IF op \in {"AND", "OR"}
    THEN Logical(left, Op(op, 1), right)
    ELSE Binary(left, Op(op, 1), right)

\* what the grammar makes of `a op1 b op2 c`
Grouped(a, op1, b, op2, c) ==
    IF Rank(op1) >= Rank(op2)
    THEN Tree(Tree(a, op1, b), op2, c)
    ELSE Tree(a, op1, Tree(b, op2, c))

\* the program parsed is the statement: it is the first statement, and the
\* only one when the `;` belongs to it (the flag of Parser::new set)
ParsedAs(stmt) ==
    /\ Len(pstatements) >= 1
    /\ pstatements[1] = stmt
    /\ flag => (pstatus = "done" /\ pstatements = << stmt >>)

\* C20: the AST follows the precedence and the associativity of the grammar:
\* of two operators the tighter one groups first, operators of one level
\* group to the left, and assignment groups to the right below every
\* operator.
C20_PrecedenceAndAssociativity ==
    Parsed =>
        /\ \A op1, op2 \in Operators :
               ptokens = PrecedenceStream(op1, op2) =>
                   ParsedAs(ExpressionStmt(Grouped(V("a"), op1, V("b"), op2, V("c"))))
        /\ ptokens = NumberStream =>
               ParsedAs(ExpressionStmt(Bin(Num(1), "PLUS", Bin(Num(2), "STAR", Num(3)))))
        /\ ptokens = AssignmentStream =>
               ParsedAs(ExpressionStmt(Set("a", Set("b", V("c")))))
        /\ ptokens = AssignmentOrStream =>
               ParsedAs(ExpressionStmt(Set("a", Log(V("b"), "OR", V("c")))))

C20_Witness ==
    /\ ptokens = PrecedenceStream("MINUS", "MINUS")
    /\ flag
    /\ pstatus = "done"
    /\ pstatements = << ExpressionStmt(Bin(Bin(V("a"), "MINUS", V("b")), "MINUS", V("c"))) >>

\* the types of the tokens
Types(tokens) == [i \in 1..Len(tokens) |-> tokens[i].token_type]

\* run_lexer has read the file and has returned
Lexed == lstatus = "done" /\ status # "exit1"

\* the `.` of the source that no digit follows
LoneDots == {i \in 1..Len(source) :
                /\ source[i] = "."
                /\ (i = Len(source) \/ source[i + 1] \notin Digits)}

DotTokens == {i \in 1..Len(ltokens) : ltokens[i].token_type = "DOT"}

\* C18: a number token matches DIGIT+ ('.' DIGIT+)? and nothing more: a `.`
\* that no digit follows is not part of the number, it is a DOT token of its
\* own; `1.` is scanned as NUMBER, DOT and `1.2.3` as NUMBER 1.2, DOT,
\* NUMBER 3.
C18_DotWithoutDigitIsDotToken ==
    Lexed =>
        /\ (\A i \in 1..Len(source) : source[i] \in Digits \cup {".", " "}) =>
               Cardinality(DotTokens) >= Cardinality(LoneDots)
        /\ source = << "1", "." >> =>
               Types(ltokens) = << "NUMBER", "DOT", "Eof" >>
        /\ source = << "1", ".", "2", ".", "3" >> =>
               /\ Types(ltokens) = << "NUMBER", "DOT", "NUMBER", "Eof" >>
               /\ ltokens[1].payload = << "1.2", "1.2" >>
               /\ ltokens[3].payload = << "3", "3.0" >>

\* the source with a space for every character that scan_token does not
\* expect
Blanked(chars) ==
    [i \in 1..Len(chars) |->
        IF \/ chars[i] \in {"(", ")", "{", "}", "*", ".", ",", "+", "-", ";"}
           \/ chars[i] \in {"=", "!", "<", ">", "/", "\"", "_"}
           \/ is_whitespace(chars[i])
           \/ is_alphanumeric(chars[i])
        THEN chars[i] ELSE " "]

\* C19: a lexical error, an unexpected character or an unterminated string,
\* does not abort the scan: the tokens before and after an unexpected
\* character are emitted in the order of the source, as they are without the
\* character, and Eof follows them; `tokenize` exits with 65 if and only if
\* there was a lexical error, with 0 otherwise.
C19_LexicalErrorDoesNotAbort ==
    Lexed =>
        /\ status = (IF err # << >> THEN "exit65" ELSE "exit0")
        /\ lhad_error <=> (err # << >>)
        /\ source # << >> =>
               /\ lchars = << >>
               /\ ltokens # << >>
               /\ ltokens[Len(ltokens)].token_type = "Eof"
               /\ \A i \in 1..(Len(ltokens) - 1) : ltokens[i].token_type # "Eof"
               /\ Len(out) = Len(ltokens)
               /\ out[Len(out)] = "EOF  null"
        /\ (source # << >> /\ \A i \in 1..Len(source) : source[i] # "\"") =>
               ltokens = lex(Blanked(source)).tokens

C19_Witness ==
    /\ Lexed
    /\ source = << "(", "@", ")" >>
    /\ Types(ltokens) = << "LEFT_PAREN", "RIGHT_PAREN", "Eof" >>
    /\ out = << "LEFT_PAREN ( null", "RIGHT_PAREN ) null", "EOF  null" >>
    /\ err = << "[line 1] Error: Unexpected character: @" >>
    /\ status = "exit65"

RuntimeReport(message) == << "[line 1] Runtime Error: " \o message >>

\* what `print a op b;` prints for two numbers and an operator on numbers
NumberResult(op, a, b) ==
    CASE op = "MINUS" -> IntStr(a - b)
      [] op = "STAR" -> IntStr(a * b)
      [] op = "LESS" -> IF a < b THEN "true" ELSE "false"
      [] op = "LESS_EQUAL" -> IF a <= b THEN "true" ELSE "false"
      [] op = "GREATER" -> IF a > b THEN "true" ELSE "false"
      [] op = "GREATER_EQUAL" -> IF a >= b THEN "true" ELSE "false"

\* the run of `print a op b;` has raised the runtime error and nothing else
Raised(message) ==
    /\ status = "exit70"
    /\ err = RuntimeReport(message)
    /\ out = << >>

\* C21: a binary operator raises a runtime error exactly when the types of
\* its operands are inadmissible.  `+` adds two numbers, concatenates two
\* strings and otherwise raises `Operands must be two numbers or two
\* strings.`; `-`, `*`, `/`, `<`, `<=`, `>`, `>=` raise `Operands must be
\* numbers.` unless both operands are numbers; `==` and `!=` never raise an
\* error, and operands of different types compare unequal.
C21_BinaryOperandTypes ==
    \A c \in BinaryCases :
        (prog = c.prog /\ Ended) =>
            /\ c.op = "PLUS" =>
                   CASE c.a.t = "Number" /\ c.b.t = "Number" ->
                            /\ status = "exit0"
                            /\ err = << >>
                            /\ out = << IntStr(c.a.n + c.b.n) >>
                     [] c.a.t = "String" /\ c.b.t = "String" ->
                            /\ status = "exit0"
                            /\ err = << >>
                            /\ out = << c.a.s \o c.b.s >>
                     [] OTHER -> Raised("Operands must be two numbers or two strings.")
            /\ c.op \in NumberOperators =>
                   IF c.a.t = "Number" /\ c.b.t = "Number"
                   THEN /\ err = << >>
                        /\ status \in {"exit0", "unmodelled"}
                        /\ (c.op # "SLASH" /\ status = "exit0") =>
                               out = << NumberResult(c.op, c.a.n, c.b.n) >>
                        /\ c.op # "SLASH" => status = "exit0"
                   ELSE Raised("Operands must be numbers.")
            /\ c.op \in {"EQUAL_EQUAL", "BANG_EQUAL"} =>
                   /\ status = "exit0"
                   /\ err = << >>
                   /\ c.a.t # c.b.t =>
                          out = << IF c.op = "EQUAL_EQUAL" THEN "false" ELSE "true" >>
                   /\ (c.a.t = c.b.t /\ c.a.t # "Function") =>
                          out = << IF (c.op = "EQUAL_EQUAL") <=> (c.a = c.b)
                                   THEN "true" ELSE "false" >>

\* `print 1 < "x";` has raised `Operands must be numbers.`
C21_Witness ==
    /\ prog = BinaryProgram(Num(1), "LESS", Str("x"))
    /\ Raised("Operands must be numbers.")

\* the environments on the parent chain of e, e first
RECURSIVE Chain(_, _)
Chain(heap, e) ==
    IF heap[e].enclosing.some
    THEN << e >> \o Chain(heap, heap[e].enclosing.v)
    ELSE << e >>

\* the places of the chain whose environment binds the name
Binding(heap, e, name) ==
    {i \in 1..Len(Chain(heap, e)) : name \in DOMAIN heap[Chain(heap, e)[i]].values}

\* the nearest environment of the chain of e that binds the name
Scope(heap, e, name) ==
    Chain(heap, e)[CHOOSE i \in Binding(heap, e, name) :
                       \A j \in Binding(heap, e, name) : i <= j]

\* the heap is the one before the operation but for the binding of the name
\* in environment s
OnlyBindingChanged(s) ==
    /\ Len(envs) = Len(eop.before)
    /\ \A i \in 1..Len(envs) :
           /\ envs[i].enclosing = eop.before[i].enclosing
           /\ i # s => envs[i] = eop.before[i]
    /\ DOMAIN envs[s].values = DOMAIN eop.before[s].values \cup {eop.name}
    /\ envs[s].values[eop.name] = eop.value
    /\ \A n \in DOMAIN eop.before[s].values :
           n # eop.name => envs[s].values[n] = eop.before[s].values[n]

\* C22: get and assign resolve a name to the same scope, the nearest
\* environment on the parent chain from the current one that binds the name;
\* assign overwrites the binding of that scope only, define inserts or
\* overwrites in the environment it is invoked on only, and neither changes
\* a binding of any other environment.
C22_SameScopeForGetAndAssign ==
    /\ eop.kind = "get" =>
           /\ envs = eop.before
           /\ eop.ok <=> Binding(eop.before, environment, eop.name) # {}
           /\ eop.ok =>
                  eop.value =
                      eop.before[Scope(eop.before, environment, eop.name)].values[eop.name]
    /\ eop.kind = "assign" =>
           /\ eop.ok <=> Binding(eop.before, environment, eop.name) # {}
           /\ ~eop.ok => envs = eop.before
           /\ eop.ok =>
                  /\ OnlyBindingChanged(Scope(eop.before, environment, eop.name))
                  /\ get(envs, environment, Ident(eop.name, 1)) =
                         [ok |-> TRUE, value |-> eop.value]
    /\ eop.kind = "define" => OnlyBindingChanged(environment)

\* assign has overwritten a binding of an enclosing environment that is not
\* the outermost one
C22_Witness ==
    /\ eop.kind = "assign"
    /\ eop.ok
    /\ Len(Chain(envs, environment)) = 3
    /\ Scope(eop.before, environment, eop.name) = Chain(envs, environment)[2]
    /\ envs # eop.before

\* the hand-written form of the `for` statement of the clauses:
\* { <init> while (<cond>) { print a; <incr>; } } without the outer block
\* when there is no initializer, without the inner one when there is no
\* increment, and with `true` for a missing condition
WhileForm(c) ==
    LET body == IF c.increment
                THEN BlockStmt(<< PrintStmt(V("a")),
                                  ExpressionStmt(Set("a", Bin(V("a"), "PLUS", Num(1)))) >>)
                ELSE PrintStmt(V("a"))
        loop == WhileStmt(IF c.condition THEN Bin(V("a"), "LESS", Num(3))
                          ELSE Bool(TRUE),
                          body)
    IN  CASE c.initializer = "none" -> loop
          [] c.initializer = "var" -> BlockStmt(<< VarDecl("a", Num(1)), loop >>)
          [] OTHER -> BlockStmt(<< ExpressionStmt(Set("a", Num(1))), loop >>)

\* C23: `for (init; cond; incr) body` is parsed to
\* Block[init, While(cond, Block[body, Expression(incr)])], with `true` for
\* a missing cond, without the outer Block for a missing init and without
\* the inner Block for a missing incr: the statement the parser returns is
\* the hand-written `while` form, so that executing the one is executing the
\* other.
C23_ForIsTheWhileForm ==
    Parsed =>
        \A c \in ForClauses :
            ptokens = Stream(ForWords(c)) =>
                /\ pstatus = "done"
                /\ err = << >>
                /\ pstatements = << WhileForm(c) >>

\* the same, of the parser that expects the `;` of an expression statement
ForIsTheWhileFormWithSemicolons == flag => C23_ForIsTheWhileForm

\* this turn of Parser::parse got no statement from declaration() and has
\* called synchronize()
Synchronizing ==
    /\ pstatus = "parsing"
    /\ ~is_at_end(P)
    /\ pstatus' = "parsing"
    /\ pstatements' = pstatements

\* where the claim lets synchronize return: after a `;`, before a token that
\* begins a statement, or at EOF
AtStatementBoundary ==
    \/ is_at_end(P)
    \/ (pcurrent > 0 /\ TokenAt(P, pcurrent - 1).token_type = "SEMICOLON")
    \/ peek(P).v.token_type \in StatementStart

\* C24: when synchronize returns, the parser has just consumed a `;`, or its
\* next token is one of `class`, `fun`, `var`, `for`, `if`, `while`, `print`,
\* `return`, or it is at EOF: the keyword of the statement after the error is
\* not discarded.
C24_SynchronizeKeepsTheKeyword ==
    [][Synchronizing => AtStatementBoundary']_vars

\* the Call nodes of an expression and of a statement
RECURSIVE CallsOf(_)
CallsOf(expr) ==
    CASE expr.kind = "Call" ->
             {expr} \cup CallsOf(expr.callee)
                 \cup UNION { CallsOf(expr.arguments[i]) : i \in 1..Len(expr.arguments) }
      [] expr.kind = "Grouping" -> CallsOf(expr.expression)
      [] expr.kind = "Unary" -> CallsOf(expr.right)
      [] expr.kind \in {"Binary", "Logical"} -> CallsOf(expr.left) \cup CallsOf(expr.right)
      [] expr.kind = "Assign" -> CallsOf(expr.value)
      [] OTHER -> {}

RECURSIVE CallsIn(_)
CallsIn(stmt) ==
    CASE stmt.kind \in {"Expression", "Print", "Var"} -> CallsOf(stmt.expr)
      [] stmt.kind = "Return" -> CallsOf(stmt.value)
      [] stmt.kind = "Block" ->
             UNION { CallsIn(stmt.statements[i]) : i \in 1..Len(stmt.statements) }
      [] stmt.kind = "Function" ->
             UNION { CallsIn(stmt.body[i]) : i \in 1..Len(stmt.body) }
      [] stmt.kind = "While" -> CallsOf(stmt.condition) \cup CallsIn(stmt.body)
      [] stmt.kind = "If" ->
             CallsOf(stmt.condition) \cup CallsIn(stmt.then_branch)
                 \cup (IF stmt.else_branch.some THEN CallsIn(stmt.else_branch.v) ELSE {})

ParsedCalls == UNION { CallsIn(pstatements[i]) : i \in 1..Len(pstatements) }

\* C25: for every token sequence, every Call node that the parser returns
\* has a RIGHT_PAREN token as its closing paren: a call without its `)` is
\* in no statement of a parse without an error, and Parser::parse returns
\* no statement after an error.
C25_ClosingParenIsRightParen ==
    (pstatus = "done" \/ ~phad_error) =>
        \A c \in ParsedCalls : c.paren.token_type = "RIGHT_PAREN"

\* `f()(a, 2);` is parsed: two Call nodes are returned
C25_Witness ==
    /\ pstatus = "done"
    /\ ptokens = Stream(<< "f", "LEFT_PAREN", "RIGHT_PAREN", "LEFT_PAREN", "a", "COMMA",
                           "2", "RIGHT_PAREN", "SEMICOLON" >>)
    /\ Cardinality(ParsedCalls) = 2

\* the `\n` of the source
Newlines == {i \in 1..Len(source) : source[i] = "\n"}

\* C26: the scanner keeps one line counter, incremented on every `\n` of the
\* source, those inside string literals included: a token after a string
\* literal of more than one line carries the line it is on, and the line of
\* the EOF token is 1 plus the number of `\n` of the source.
C26_OneLineCounter ==
    (Lexed /\ source # << >>) =>
        /\ ltokens[Len(ltokens)].line = 1 + Cardinality(Newlines)
        /\ source = << "\"", "\n", "\"", "(" >> =>
               /\ Types(ltokens) = << "STRING", "LEFT_PAREN", "Eof" >>
               /\ ltokens[2].line = 2

\* the same of the sources without a string literal
OneLineCounterWithoutStrings ==
    (\A i \in 1..Len(source) : source[i] # "\"") => C26_OneLineCounter

EofTokens(tokens) == {i \in 1..Len(tokens) : tokens[i].token_type = "Eof"}

\* C27: for every source, with or without lexical errors, the tokens of the
\* scanner contain exactly one EOF token, and it is the last one: so it is
\* of Lexer::lex on every source, of the tokens that `tokenize` has scanned,
\* and of the lines it prints.
C27_ExactlyOneEofAtTheEnd ==
    /\ EofTokens(lex(source).tokens) = {Len(lex(source).tokens)}
    /\ (Lexed /\ source # << >>) =>
           /\ ltokens = lex(source).tokens
           /\ EofTokens(ltokens) = {Len(ltokens)}
    /\ Lexed =>
           {i \in 1..Len(out) : out[i] = "EOF  null"} = {Len(out)}
    /\ ~Lexed => EofTokens(ltokens) = {}

\* `1@2 a` is scanned, with its lexical error
C27_Witness ==
    /\ Lexed
    /\ source = << "1", "@", "2", " ", "a" >>
    /\ lhad_error
    /\ Types(ltokens) = << "NUMBER", "NUMBER", "IDENTIFIER", "Eof" >>

\* following the parent links from environment e reaches globals in at most
\* n steps
RECURSIVE ReachesGlobals(_, _)
ReachesGlobals(e, n) ==
    \/ e = globals
    \/ /\ n > 0
       /\ envs[e].enclosing.some
       /\ envs[e].enclosing.v \in 1..Len(envs)
       /\ ReachesGlobals(envs[e].enclosing.v, n - 1)

\* the closures of the user functions that the environments bind
FunctionsOf(env) ==
    { env.values[n] : n \in {m \in DOMAIN env.values :
                                /\ env.values[m].t = "Function"
                                /\ ~env.values[m].native} }

Closures == UNION { { f.closure : f \in FunctionsOf(envs[i]) } : i \in 1..Len(envs) }

\* C28: in every state of the evaluator, globals is the root environment
\* made at construction, and the parent links from the current environment,
\* and from the closure of every function value, reach globals in finitely
\* many steps: no chain has a cycle.
C28_ChainsReachGlobals ==
    Constructed =>
        /\ globals = 1
        /\ ~envs[globals].enclosing.some
        /\ "clock" \in DOMAIN envs[globals].values
        /\ environment \in 1..Len(envs)
        /\ ReachesGlobals(environment, Len(envs))
        /\ \A c \in Closures : c \in 1..Len(envs) /\ ReachesGlobals(c, Len(envs))

\* a function is bound whose closure is not globals, in a current
\* environment that is neither globals nor that closure
C28_Witness ==
    /\ status = "running"
    /\ environment # globals
    /\ \E c \in Closures : c # globals /\ c # environment
    /\ C28_ChainsReachGlobals

\* the expressions that the execution of the statement evaluates first
EvaluatedBy(stmt) ==
    CASE stmt.kind \in {"Expression", "Print", "Var"} -> {stmt.expr}
      [] stmt.kind = "Return" -> {stmt.value} \ {Null}
      [] stmt.kind \in {"If", "While"} -> {stmt.condition}
      [] OTHER -> {}

\* C29: a return signal never crosses the boundary of a call: the call of a
\* user function makes the Return raised in its body the value of the call,
\* the evaluation of an expression never yields the Return variant, and so a
\* `return` executed in a callee ends no statement of the caller: after
\* `f();` has returned in g, g prints 2, tests and prints with the values of
\* f, and returns its own 4.
C29_ReturnStopsAtTheCall ==
    /\ (status = "running" /\ pc <= Len(prog)) =>
           \A e \in EvaluatedBy(prog[pc]) :
               \A readings \in Readings :
                   evaluate(e, St(readings)).kind # "Return"
    /\ (prog = CalleeReturnProgram /\ Ended) =>
           /\ status = "exit0"
           /\ out = << "2", "3", "4" >>
           /\ err = << >>

\* the calls of f in g have returned, and g after them
C29_Witness ==
    /\ prog = CalleeReturnProgram
    /\ status = "exit0"
    /\ out = << "2", "3", "4" >>

\* the cursor after one turn of the loop of Parser::parse or of
\* Parser::block, d what declaration() yields: the end of the tokens when
\* the turn panics
CursorAfterTurn(d) ==
    CASE d.kind = "Panic" -> Len(d.p.tokens)
      [] d.kind = "Some" -> d.p.current
      [] OTHER -> synchronize(d.p).current

\* a turn of either loop, begun at any token before EOF, consumes a token
EveryTurnConsumes ==
    \A k \in 0..(Len(ptokens) - 2) :
        CursorAfterTurn(declaration([P EXCEPT !.current = k])) > k

\* C30: for every finite token sequence that ends in EOF, parse terminates:
\* every turn of the loop of the top-level declarations, and of the loop of
\* a block, consumes at least one token, by a declaration or by synchronize,
\* and the cursor never moves past the EOF token.  The cursor is a measure
\* that every turn increases and the place of EOF bounds, and at EOF the
\* loop ends.
C30_ParseTerminates ==
    /\ [](pcurrent <= Len(ptokens) - 1)
    /\ []((pstatus = "parsing" /\ pcurrent = 0) => EveryTurnConsumes)
    /\ [][(pstatus = "parsing" /\ ~is_at_end(P)) =>
              (pcurrent' > pcurrent \/ pstatus' = "panic")]_vars
    /\ [][(pstatus = "parsing" /\ is_at_end(P)) => pstatus' \in {"done", "exit"}]_vars

\* the parse of `{ return 1 = 2; } print 1;` is over, the cursor on EOF after
\* a turn that synchronize has ended
C30_Witness ==
    /\ ptokens = Stream(NestedErrorWords.block)
    /\ pstatus = "done"
    /\ pcurrent = Len(ptokens) - 1
    /\ Len(pstatements) = 2

====
